---- MODULE Spec2Model ----
(***************************************************************************)
(* reddit-harvest: the harvest / dedupe / retry / analysis core.           *)
(*                                                                         *)
(* The module holds several state machines that share one variable tuple.  *)
(* Each has its own specification, and leaves the other machines'          *)
(* variables untouched:                                                    *)
(*   SpecAnalyze  analyzeCorpus, the four-stage completion pipeline        *)
(*   SpecRetry    withRetry, the generic retry wrapper                     *)
(*   SpecDedupe   the dedupe index on disk and the trackers of two runs    *)
(***************************************************************************)
EXTENDS Integers, Sequences, FiniteSets, TLC

(***************************************************************************)
(* Bounds of the model.                                                    *)
(***************************************************************************)
MaxPosts == 2
MaxRetriesBound == 2
MaxClock == 1
MaxSaves == 1
MaxKept == 2
MaxFilterPosts == 2
MaxLen == 4
MaxChunk == 3
MaxRuns == 2
MaxRecords == 2
MaxLines == 2

(***************************************************************************)
(* Program constants.                                                      *)
(***************************************************************************)
MAX_CHARS == 12000
DefaultMaxRetries == 3
DefaultBaseDelayMs == 1000
DefaultMaxChars == 12000

(***************************************************************************)
(* Variables of the analysis pipeline (analyzeCorpus).                     *)
(***************************************************************************)
VARIABLES
    a_input,        \* how the run was started: with posts, or with a file
    a_posts,        \* argument posts: sequence of [subreddit, len]
    a_timestamp,    \* argument timestamp ("" when null)
    a_pc,           \* position in analyzeCorpus
    a_groups,       \* Object.keys(postsBySubreddit), in insertion order
    a_src,          \* index into a_groups of the source being analysed
    a_chunks,       \* chunk lengths of the source being analysed
    a_k,            \* index of the chunk being summarised
    a_out,          \* the completion request in flight, or NoReq
    a_log,          \* requests issued / returned / failed, files written
    a_summaries,    \* subredditSummaries
    a_tags,         \* result of extractTags
    a_opps,         \* result of generateOpportunities
    a_files,        \* artifacts in the output directory
    a_failure       \* why analyzeCorpus rejected, or NoFailure

a_vars == << a_input, a_posts, a_timestamp, a_pc, a_groups, a_src, a_chunks, a_k,
             a_out, a_log, a_summaries, a_tags, a_opps, a_files, a_failure >>


(***************************************************************************)
(* Variables of the retry wrapper (withRetry).                             *)
(***************************************************************************)
VARIABLES
    r_script,       \* what fn does: its i-th invocation has outcome r_script[i]
    r_maxRetries,   \* option maxRetries
    r_baseDelayMs,  \* option baseDelayMs
    r_onRetry,      \* option onRetry: "absent", "returns" or "raises"
    r_pc,           \* position in withRetry
    r_attempt,      \* loop variable attempt
    r_calls,        \* number of invocations of fn so far
    r_hookLog,      \* arguments of the onRetry calls so far
    r_lastError,    \* lastError
    r_delayMs,      \* delayMs of the pending retry
    r_result,       \* what withRetry returned or raised
    r_seen          \* per hook kind, the result of the finished call

r_vars == << r_script, r_maxRetries, r_baseDelayMs, r_onRetry, r_pc,
             r_attempt, r_calls, r_hookLog, r_lastError, r_delayMs,
             r_result, r_seen >>

(***************************************************************************)
(* Variables of the dedupe index: the index file of one output directory,  *)
(* the tracker of this run, and the saveDedupeIndex calls of this run's    *)
(* tracker and of another process working on the same directory.           *)
(***************************************************************************)
VARIABLES
    d_disk,         \* the index file: [kind, posts], posts: id -> harvestedAt
    d_now,          \* the clock new Date() reads
    d_reset,        \* how the last resetDedupeIndex ended: "none", "done", "raised"
    t_pc,           \* tracker: "none", "ready", "saving", "saved"
    t_existingIds,  \* tracker closure variable existingIds
    t_newIds,       \* tracker closure variable newIds
    t_loaded,       \* history: the ids the index held when the tracker was made
    t_kept,         \* per id: how often harvestSubreddit kept a post with it
    s_pc,           \* per saver: "idle", "writing"
    s_posts,        \* per saver: local posts (the stamped new entries)
    s_existing,     \* per saver: local existing (the entries read)
    s_saves         \* per saver: number of saves begun

d_vars == << d_disk, d_now, d_reset, t_pc, t_existingIds, t_newIds, t_loaded, t_kept,
             s_pc, s_posts, s_existing, s_saves >>

(***************************************************************************)
(* Variables of one applyFilters call.                                     *)
(***************************************************************************)
VARIABLES
    f_posts,        \* argument posts
    f_opts,         \* argument { minScore, minComments, after, before }
    f_pc,           \* the statement applyFilters is at
    f_filtered,     \* local filtered
    f_afterTs,      \* local afterTs
    f_beforeTs      \* local beforeTs

f_vars == << f_posts, f_opts, f_pc, f_filtered, f_afterTs, f_beforeTs >>

(***************************************************************************)
(* Variables of one chunkStringBySize call.                                *)
(***************************************************************************)
VARIABLES
    c_input,        \* argument input: a string, null or undefined
    c_maxArg,       \* argument maxChars as passed: a number, or not passed
    c_s,            \* local s, a sequence of characters
    c_maxChars,     \* parameter maxChars once its default is applied
    c_pc,           \* "called", "loop", "returned"
    c_i,            \* local i
    c_chunks        \* local chunks, and the value returned

c_vars == << c_input, c_maxArg, c_s, c_maxChars, c_pc, c_i, c_chunks >>

(***************************************************************************)
(* Variables of successive harvest runs (runHarvest from the construction  *)
(* of the tracker to its save) on one output directory.                    *)
(***************************************************************************)
VARIABLES
    h_cfg,          \* the options of every run
    h_remote,       \* per subreddit, the posts the platform returns
    h_disk,         \* the index file of the output directory
    h_files,        \* the corpus files written: [run, sr] -> records
    h_dir,          \* the corpus files of the output directory, by path
    h_outputs,      \* harvestSubredditsToFiles: outputs
    h_run,          \* number of the current run
    h_pc,           \* where the current run is
    h_k,            \* index of the source being harvested
    h_posts,        \* harvestSubreddit: posts after filters and dedupe
    h_i,            \* harvestSubreddit: loop index (from 1)
    h_results,      \* harvestSubreddit: results
    h_existingIds,  \* tracker closure variable existingIds
    h_newIds,       \* tracker closure variable newIds
    h_diskAtLoad,   \* history: the index file when the run began
    h_log,          \* history: what the current run did, in order
    h_events,       \* the progress events the current run handed to onProgress
    h_failure,      \* how the current run failed, cause "none" if it did not
    h_runs          \* history: one record per finished run

h_vars == << h_cfg, h_remote, h_disk, h_files, h_dir, h_outputs, h_run, h_pc, h_k, h_posts, h_i,
             h_results, h_existingIds, h_newIds, h_diskAtLoad, h_log, h_events,
             h_failure, h_runs >>

(***************************************************************************)
(* Variables of the formatters: formatPostsToJSONL, parseJSONL and         *)
(* formatPostsToText applied to one list of records.                       *)
(***************************************************************************)
VARIABLES
    o_posts,        \* argument posts, a list of records
    o_opts,         \* the options of formatPostsToText
    o_pc,           \* which calls were made
    o_jsonl,        \* formatPostsToJSONL(posts)
    o_parsed,       \* parseJSONL(o_jsonl): the values, or that it threw
    o_jsonl2,       \* formatPostsToJSONL(o_parsed)
    o_text          \* formatPostsToText(posts, opts), as its lines

o_vars == << o_posts, o_opts, o_pc, o_jsonl, o_parsed, o_jsonl2, o_text >>

vars == << a_vars, r_vars, d_vars, f_vars, c_vars, h_vars, o_vars >>

\* what each machine leaves alone; no step of a run changes its input
a_Others == UNCHANGED << a_input, r_vars, d_vars, f_vars, c_vars, h_vars, o_vars >>
r_Others == UNCHANGED << a_vars, d_vars, f_vars, c_vars, h_vars, o_vars >>
d_Others == UNCHANGED << a_vars, r_vars, f_vars, c_vars, h_vars, o_vars >>
f_Others == UNCHANGED << a_vars, r_vars, d_vars, c_vars, h_vars, o_vars >>
c_Others == UNCHANGED << a_vars, r_vars, d_vars, f_vars, h_vars, o_vars >>
h_Others == UNCHANGED << a_vars, r_vars, d_vars, f_vars, c_vars, o_vars >>
o_Others == UNCHANGED << a_vars, r_vars, d_vars, f_vars, c_vars, h_vars >>

(***************************************************************************)
(* Failures a remote call can raise: an HTTP-like status code (0 when the  *)
(* failure object carries none) and whether its message matches            *)
(* /rate.?limit/i.                                                         *)
(***************************************************************************)
Errors ==
    { [statusCode |-> 429, rateLimitMsg |-> FALSE],
      [statusCode |-> 503, rateLimitMsg |-> FALSE],
      [statusCode |-> 0,   rateLimitMsg |-> TRUE],
      [statusCode |-> 404, rateLimitMsg |-> FALSE],
      [statusCode |-> 600, rateLimitMsg |-> FALSE] }

isRateLimit(err) == err.statusCode = 429 \/ err.rateLimitMsg

isRetryable(err) == isRateLimit(err) \/ err.statusCode >= 500

SeqsUpTo(S, n) == UNION { [1..k -> S] : k \in 0..n }

RECURSIVE SumLen(_)
SumLen(ps) == IF ps = << >> THEN 0 ELSE Head(ps).len + SumLen(Tail(ps))

(***************************************************************************)
(* chunkStringBySize, on lengths: the lengths of the slices it returns for *)
(* an input of len characters.                                             *)
(***************************************************************************)
RECURSIVE chunkLoop(_, _, _)
chunkLoop(len, maxChars, i) ==
    IF i < len
    THEN << (IF i + maxChars <= len THEN maxChars ELSE len - i) >>
         \o chunkLoop(len, maxChars, i + maxChars)
    ELSE << >>

chunkStringBySize(len, maxChars) ==
    IF len <= maxChars THEN << len >> ELSE chunkLoop(len, maxChars, 0)

PostSubs == { "", "startups" }
PostLens == { MAX_CHARS, MAX_CHARS + 1 }
Posts == [ subreddit : PostSubs, len : PostLens ]

NowStamp == "2026-01-01T00-00-00.000Z"
HarvestStamp == "2025-12-26T21-09-05.000Z"

NoReq == [stage |-> 0, kind |-> "none", src |-> 0, k |-> 0]
NoFailure == [cause |-> "none", stage |-> 0, err |-> [statusCode |-> 0, rateLimitMsg |-> FALSE]]
NoText == "(no text)"
FreeText == "## Summary"
NoValue == [shape |-> "unset", error |-> "", raw |-> ""]

(***************************************************************************)
(* Completion responses of the JSON-constrained stages, as chat() returns  *)
(* them (trimmed text), and what JSON.parse makes of each.                 *)
(***************************************************************************)
Responses ==
    { "[{\"id\":\"opp-1\"}]", "{\"painPoints\":[]}", "\"n/a\"",
      "Sorry, I cannot", "" }

JSONParse(text) ==
    CASE text = "[{\"id\":\"opp-1\"}]" -> [ok |-> TRUE,  shape |-> "array"]
      [] text = "{\"painPoints\":[]}"  -> [ok |-> TRUE,  shape |-> "object"]
      [] text = "\"n/a\""              -> [ok |-> TRUE,  shape |-> "string"]
      [] OTHER                         -> [ok |-> FALSE, shape |-> "none"]

\* p.subreddit || "unknown"
groupKey(p) == IF p.subreddit = "" THEN "unknown" ELSE p.subreddit

RECURSIVE groupKeys(_, _)
groupKeys(ps, acc) ==
    IF ps = << >> THEN acc
    ELSE LET sr == groupKey(Head(ps))
         IN  groupKeys(Tail(ps),
                       IF \E i \in 1..Len(acc) : acc[i] = sr
                       THEN acc ELSE Append(acc, sr))

postsOf(ps, sr) == SelectSeq(ps, LAMBDA p : groupKey(p) = sr)

\* postsToText(posts).length: the rendered posts joined by "\n\n"
postsToTextLen(ps) ==
    IF ps = << >> THEN 0 ELSE SumLen(ps) + 2 * (Len(ps) - 1)

a_ts == IF a_timestamp = "" THEN NowStamp ELSE a_timestamp

(***************************************************************************)
(* The input of analyzeFileToMarkdown.  A file name is its parts between   *)
(* dots (<< "startups", "txt" >> is startups.txt, << "", "txt" >> is       *)
(* .txt), a name having at most one dot.  The content is a list of lines,  *)
(* each blank, the JSON text of a record, or text that is not JSON; len is *)
(* the length of the text postsToText renders for the content taken as the *)
(* body of one record.                                                     *)
(***************************************************************************)
DirectCall == [kind |-> "posts", name |-> << >>, lines |-> << >>, len |-> 0]
BlankLine == [kind |-> "blank", post |-> [subreddit |-> "", len |-> 0]]
InvalidLine == [kind |-> "invalid", post |-> [subreddit |-> "", len |-> 0]]
RecordLine(p) == [kind |-> "record", post |-> p]
Lines == { BlankLine, InvalidLine } \cup { RecordLine(p) : p \in Posts }
TextNames == { << "startups", "txt" >>, << "startups" >>, << "", "txt" >>,
               << "startups", "JSONL" >> }
JsonlNames == { << "startups", "jsonl" >> }
InputFiles ==
    [ kind : { "file" }, name : TextNames, lines : { << >> }, len : PostLens ]
    \cup [ kind : { "file" }, name : JsonlNames,
           lines : SeqsUpTo(Lines, MaxLines), len : { MAX_CHARS } ]
    \cup [ kind : { "missing" }, name : JsonlNames, lines : { << >> }, len : { 0 } ]

\* mutant: every input is taken as line-delimited
endsWithJsonl_always(name) == TRUE
\* inputPath.endsWith(".jsonl")
endsWithJsonl(name) == Len(name) >= 2 /\ name[Len(name)] = "jsonl"
\* path.basename(inputPath).replace(/\.[^.]+$/, "")
stripExtension(name) ==
    IF Len(name) >= 2 /\ name[Len(name)] # ""
    THEN SubSeq(name, 1, Len(name) - 1) ELSE name
\* the string of a name without a dot: its only part
dotless(name) == name[1]
\* content.split("\n").filter((line) => line.trim()).map(JSON.parse), on
\* lines: whether a JSON.parse threw, and the values
parseLines(lines) ==
    LET kept == SelectSeq(lines, LAMBDA l : l.kind # "blank")
    IN  [threw |-> \E j \in 1..Len(kept) : kept[j].kind = "invalid",
         values |-> [j \in 1..Len(kept) |-> kept[j].post]]
\* the pseudo-post wrapped around the content of a text file
pseudoPost(file) ==
    [subreddit |-> dotless(stripExtension(file.name)), len |-> file.len]
\* let posts: parseJSONL(content) or the one pseudo-post
postsOfFile(file) ==
    IF endsWithJsonl(file.name) THEN parseLines(file.lines).values
    ELSE << pseudoPost(file) >>
\* fs.readFile rejects, or a JSON.parse in parseJSONL throws
readThrows(file) ==
    \/ file.kind = "missing"
    \/ endsWithJsonl(file.name) /\ parseLines(file.lines).threw

\* analyzeCorpus not called
a_Idle ==
    /\ a_input = DirectCall
    /\ a_posts = << >>
    /\ a_timestamp = ""
    /\ a_pc = "Idle"
    /\ a_groups = << >>
    /\ a_src = 0
    /\ a_chunks = << >>
    /\ a_k = 0
    /\ a_out = NoReq
    /\ a_log = << >>
    /\ a_summaries = << >>
    /\ a_tags = NoValue
    /\ a_opps = NoValue
    /\ a_files = {}
    /\ a_failure = NoFailure

a_Init ==
    /\ \/ /\ a_input = DirectCall
          /\ a_posts \in SeqsUpTo(Posts, MaxPosts)
          /\ a_timestamp \in { "", HarvestStamp }
          /\ a_pc = "Start"
       \/ /\ a_input \in InputFiles
          /\ a_posts = << >>
          /\ a_timestamp = ""
          /\ a_pc = "File"
    /\ a_groups = << >>
    /\ a_src = 0
    /\ a_chunks = << >>
    /\ a_k = 0
    /\ a_out = NoReq
    /\ a_log = << >>
    /\ a_summaries = << >>
    /\ a_tags = NoValue
    /\ a_opps = NoValue
    /\ a_files = {}
    /\ a_failure = NoFailure

\* chat(): one completions.create call, awaited
chat_issue(req) ==
    /\ a_out = NoReq
    /\ a_out' = req
    /\ a_log' = Append(a_log, [ev |-> "issue", req |-> req, text |-> NoText])

chat_returned(req, response) ==
    /\ a_out = req
    /\ a_out' = NoReq
    /\ a_log' = Append(a_log, [ev |-> "return", req |-> req, text |-> response])

\* mutant: the per-subreddit loop stops after its first source
afterSource_firstOnly(src) ==
    /\ a_pc' = "Tag"
    /\ a_src' = src
    /\ a_chunks' = << >>
    /\ a_k' = 0

\* position after the per-subreddit loop has handled source number src
afterSource(src) ==
    IF src < Len(a_groups)
    THEN /\ a_pc' = "Chunk"
         /\ a_src' = src + 1
         /\ a_chunks' = chunkStringBySize(
                            postsToTextLen(postsOf(a_posts, a_groups[src + 1])),
                            MAX_CHARS)
         /\ a_k' = 1
    ELSE /\ a_pc' = "Tag"
         /\ a_src' = src
         /\ a_chunks' = << >>
         /\ a_k' = 0

analyzeCorpus_start ==
    /\ a_pc = "Start"
    /\ a_groups' = groupKeys(a_posts, << >>)
    /\ IF a_groups' = << >>
       THEN /\ a_pc' = "Tag"
            /\ UNCHANGED << a_src, a_chunks, a_k >>
       ELSE /\ a_pc' = "Chunk"
            /\ a_src' = 1
            /\ a_chunks' = chunkStringBySize(
                               postsToTextLen(postsOf(a_posts, a_groups'[1])),
                               MAX_CHARS)
            /\ a_k' = 1
    /\ UNCHANGED << a_posts, a_timestamp, a_out, a_log, a_summaries, a_tags,
                    a_opps, a_files, a_failure >>
    /\ a_Others

\* analyzeFileToMarkdown up to its call of analyzeCorpus, which gets no
\* timestamp
analyzeFileToMarkdown_read ==
    /\ a_pc = "File"
    /\ ~ readThrows(a_input)
    /\ a_posts' = postsOfFile(a_input)
    /\ a_pc' = "Start"
    /\ UNCHANGED << a_timestamp, a_groups, a_src, a_chunks, a_k, a_out, a_log,
                    a_summaries, a_tags, a_opps, a_files, a_failure >>
    /\ a_Others

\* the file cannot be read or a line is not JSON: analyzeFileToMarkdown
\* rejects before analyzeCorpus is called
analyzeFileToMarkdown_reject ==
    /\ a_pc = "File"
    /\ readThrows(a_input)
    /\ a_pc' = "Failed"
    /\ a_failure' = [NoFailure EXCEPT !.cause = "input"]
    /\ UNCHANGED << a_posts, a_timestamp, a_groups, a_src, a_chunks, a_k,
                    a_out, a_log, a_summaries, a_tags, a_opps, a_files >>
    /\ a_Others

\* createOpenAIClient or ensureDir throws before any request
analyzeCorpus_start_fail ==
    /\ a_pc = "Start"
    /\ a_pc' = "Failed"
    /\ a_failure' = [NoFailure EXCEPT !.cause = "setup"]
    /\ UNCHANGED << a_posts, a_timestamp, a_groups, a_src, a_chunks, a_k,
                    a_out, a_log, a_summaries, a_tags, a_opps, a_files >>
    /\ a_Others

(***************************************************************************)
(* Stage 1: analyzeSubredditPosts, one chunk request per chunk and then    *)
(* one reduce request, for each source in turn.                            *)
(***************************************************************************)
chunkReq == [stage |-> 1, kind |-> "chunk", src |-> a_src, k |-> a_k]
reduceReq == [stage |-> 1, kind |-> "reduce", src |-> a_src, k |-> 0]
tagReq == [stage |-> 2, kind |-> "tag", src |-> 0, k |-> 0]
oppReq == [stage |-> 3, kind |-> "opp", src |-> 0, k |-> 0]
synthReq == [stage |-> 4, kind |-> "synth", src |-> 0, k |-> 0]

analyzeSubredditPosts_chunk_issue ==
    /\ a_pc = "Chunk"
    /\ chat_issue(chunkReq)
    /\ UNCHANGED << a_posts, a_timestamp, a_pc, a_groups, a_src, a_chunks,
                    a_k, a_summaries, a_tags, a_opps, a_files, a_failure >>
    /\ a_Others

\* mutant: the summary of a single chunk is taken as the source's synthesis
analyzeSubredditPosts_chunk_return_singleChunk ==
    /\ a_pc = "Chunk"
    /\ chat_returned(chunkReq, FreeText)
    /\ IF a_k < Len(a_chunks)
       THEN /\ a_k' = a_k + 1 /\ a_pc' = "Chunk"
            /\ UNCHANGED << a_src, a_chunks, a_summaries >>
       ELSE IF Len(a_chunks) = 1
       THEN /\ a_summaries' = Append(a_summaries,
                                 [subreddit |-> a_groups[a_src],
                                  postCount |-> Len(postsOf(a_posts, a_groups[a_src]))])
            /\ afterSource(a_src)
       ELSE /\ a_k' = a_k /\ a_pc' = "Reduce"
            /\ UNCHANGED << a_src, a_chunks, a_summaries >>
    /\ UNCHANGED << a_posts, a_timestamp, a_groups, a_tags, a_opps, a_files, a_failure >>
    /\ a_Others

analyzeSubredditPosts_chunk_return ==
    /\ a_pc = "Chunk"
    /\ chat_returned(chunkReq, FreeText)
    /\ IF a_k < Len(a_chunks)
       THEN a_k' = a_k + 1 /\ a_pc' = "Chunk"
       ELSE a_k' = a_k /\ a_pc' = "Reduce"
    /\ UNCHANGED << a_posts, a_timestamp, a_groups, a_src, a_chunks,
                    a_summaries, a_tags, a_opps, a_files, a_failure >>
    /\ a_Others

analyzeSubredditPosts_reduce_issue ==
    /\ a_pc = "Reduce"
    /\ chat_issue(reduceReq)
    /\ UNCHANGED << a_posts, a_timestamp, a_pc, a_groups, a_src, a_chunks,
                    a_k, a_summaries, a_tags, a_opps, a_files, a_failure >>
    /\ a_Others

analyzeSubredditPosts_reduce_return ==
    /\ a_pc = "Reduce"
    /\ chat_returned(reduceReq, FreeText)
    /\ a_summaries' = Append(a_summaries,
                             [subreddit |-> a_groups[a_src],
                              postCount |-> Len(postsOf(a_posts, a_groups[a_src]))])
    /\ afterSource(a_src)
    /\ UNCHANGED << a_posts, a_timestamp, a_groups, a_tags, a_opps, a_files,
                    a_failure >>
    /\ a_Others

(***************************************************************************)
(* Stage 2: extractTags.  JSON.parse of the response, or the placeholder.  *)
(***************************************************************************)
parsedValue(text) == [shape |-> JSONParse(text).shape, error |-> "", raw |-> text]

tagsOf(response) ==
    IF JSONParse(response).ok
    THEN parsedValue(response)
    ELSE [shape |-> "error_object", error |-> "Failed to parse tags", raw |-> response]

extractTags_issue ==
    /\ a_pc = "Tag"
    /\ chat_issue(tagReq)
    /\ UNCHANGED << a_posts, a_timestamp, a_pc, a_groups, a_src, a_chunks,
                    a_k, a_summaries, a_tags, a_opps, a_files, a_failure >>
    /\ a_Others

extractTags_return ==
    /\ a_pc = "Tag"
    /\ \E response \in Responses :
          /\ chat_returned(tagReq, response)
          /\ a_tags' = tagsOf(response)
    /\ a_pc' = "Opp"
    /\ UNCHANGED << a_posts, a_timestamp, a_groups, a_src, a_chunks, a_k,
                    a_summaries, a_opps, a_files, a_failure >>
    /\ a_Others

(***************************************************************************)
(* Stage 3: generateOpportunities.                                         *)
(***************************************************************************)
\* mutant: the stage-2 placeholder (an object) used for stage 3
opportunitiesOf_asObject(response) ==
    IF JSONParse(response).ok
    THEN [shape |-> JSONParse(response).shape, error |-> "", raw |-> response]
    ELSE [shape |-> "error_object", error |-> "Failed to parse opportunities",
          raw |-> response]

opportunitiesOf(response) ==
    IF JSONParse(response).ok
    THEN parsedValue(response)
    ELSE [shape |-> "error_array", error |-> "Failed to parse opportunities",
          raw |-> response]

generateOpportunities_issue ==
    /\ a_pc = "Opp"
    /\ chat_issue(oppReq)
    /\ UNCHANGED << a_posts, a_timestamp, a_pc, a_groups, a_src, a_chunks,
                    a_k, a_summaries, a_tags, a_opps, a_files, a_failure >>
    /\ a_Others

\* mutant: the opportunities artifact is written as soon as stage 3 is done
generateOpportunities_return_writes ==
    /\ a_pc = "Opp"
    /\ \E response \in Responses :
          /\ chat_returned(oppReq, response)
          /\ a_opps' = opportunitiesOf(response)
    /\ a_pc' = "Synth"
    /\ a_files' = a_files \cup { << IF a_timestamp = "" THEN NowStamp ELSE a_timestamp,
                                    "opportunities.json" >> }
    /\ UNCHANGED << a_posts, a_timestamp, a_groups, a_src, a_chunks, a_k,
                    a_summaries, a_tags, a_failure >>
    /\ a_Others

generateOpportunities_return ==
    /\ a_pc = "Opp"
    /\ \E response \in Responses :
          /\ chat_returned(oppReq, response)
          /\ a_opps' = opportunitiesOf(response)
    /\ a_pc' = "Synth"
    /\ UNCHANGED << a_posts, a_timestamp, a_groups, a_src, a_chunks, a_k,
                    a_summaries, a_tags, a_files, a_failure >>
    /\ a_Others

(***************************************************************************)
(* Stage 4: generateFinalSynthesis.  The prompt is built from              *)
(* opportunities.slice(0, 5), which raises a TypeError before the request  *)
(* is made when the stage-3 value has no slice method.                     *)
(***************************************************************************)
hasSlice(v) == v.shape \in { "array", "string", "error_array" }

generateFinalSynthesis_issue ==
    /\ a_pc = "Synth"
    /\ hasSlice(a_opps)
    /\ chat_issue(synthReq)
    /\ UNCHANGED << a_posts, a_timestamp, a_pc, a_groups, a_src, a_chunks,
                    a_k, a_summaries, a_tags, a_opps, a_files, a_failure >>
    /\ a_Others

generateFinalSynthesis_typeError ==
    /\ a_pc = "Synth"
    /\ a_out = NoReq
    /\ ~ hasSlice(a_opps)
    /\ a_pc' = "Failed"
    /\ a_failure' = [NoFailure EXCEPT !.cause = "type_error", !.stage = 4]
    /\ UNCHANGED << a_posts, a_timestamp, a_groups, a_src, a_chunks, a_k,
                    a_out, a_log, a_summaries, a_tags, a_opps, a_files >>
    /\ a_Others

generateFinalSynthesis_return ==
    /\ a_pc = "Synth"
    /\ chat_returned(synthReq, FreeText)
    /\ a_pc' = "WriteAnalysis"
    /\ UNCHANGED << a_posts, a_timestamp, a_groups, a_src, a_chunks, a_k,
                    a_summaries, a_tags, a_opps, a_files, a_failure >>
    /\ a_Others

(***************************************************************************)
(* A completion request rejects: nothing in chat, the stage functions or   *)
(* analyzeCorpus catches it, so analyzeCorpus rejects with it.             *)
(***************************************************************************)
chat_fail ==
    /\ a_out # NoReq
    /\ \E err \in Errors :
          a_failure' = [cause |-> "request", stage |-> a_out.stage, err |-> err]
    /\ a_pc' = "Failed"
    /\ a_out' = NoReq
    /\ a_log' = Append(a_log, [ev |-> "fail", req |-> a_out, text |-> NoText])
    /\ UNCHANGED << a_posts, a_timestamp, a_groups, a_src, a_chunks, a_k,
                    a_summaries, a_tags, a_opps, a_files >>
    /\ a_Others

(***************************************************************************)
(* The two writes that end analyzeCorpus.                                  *)
(***************************************************************************)
analysisPath == << a_ts, "analysis.md" >>
\* mutant: the second file name takes a time stamp of its own
opportunitiesPath_ownStamp == << NowStamp, "opportunities.json" >>
opportunitiesPath == << a_ts, "opportunities.json" >>
analysisFile == [stage |-> 5, kind |-> "analysis", src |-> 0, k |-> 0]
opportunitiesFile == [stage |-> 5, kind |-> "opportunities", src |-> 0, k |-> 0]

analyzeCorpus_write_analysis ==
    /\ a_pc = "WriteAnalysis"
    /\ a_files' = a_files \cup { analysisPath }
    /\ a_log' = Append(a_log, [ev |-> "write", req |-> analysisFile, text |-> NoText])
    /\ a_pc' = "WriteOpportunities"
    /\ UNCHANGED << a_posts, a_timestamp, a_groups, a_src, a_chunks, a_k,
                    a_out, a_summaries, a_tags, a_opps, a_failure >>
    /\ a_Others

analyzeCorpus_write_opportunities ==
    /\ a_pc = "WriteOpportunities"
    /\ a_files' = a_files \cup { opportunitiesPath }
    /\ a_log' = Append(a_log, [ev |-> "write", req |-> opportunitiesFile, text |-> NoText])
    /\ a_pc' = "Done"
    /\ UNCHANGED << a_posts, a_timestamp, a_groups, a_src, a_chunks, a_k,
                    a_out, a_summaries, a_tags, a_opps, a_failure >>
    /\ a_Others

\* mutant: a write that rejects removes what the run wrote before
analyzeCorpus_write_fail_rollsBack ==
    /\ a_pc \in { "WriteAnalysis", "WriteOpportunities" }
    /\ a_pc' = "Failed"
    /\ a_failure' = [NoFailure EXCEPT !.cause = "io", !.stage = 5]
    /\ a_files' = {}
    /\ UNCHANGED << a_posts, a_timestamp, a_groups, a_src, a_chunks, a_k,
                    a_out, a_log, a_summaries, a_tags, a_opps >>
    /\ a_Others

\* fs.writeFile rejects
analyzeCorpus_write_fail ==
    /\ a_pc \in { "WriteAnalysis", "WriteOpportunities" }
    /\ a_pc' = "Failed"
    /\ a_failure' = [NoFailure EXCEPT !.cause = "io", !.stage = 5]
    /\ UNCHANGED << a_posts, a_timestamp, a_groups, a_src, a_chunks, a_k,
                    a_out, a_log, a_summaries, a_tags, a_opps, a_files >>
    /\ a_Others

a_Next ==
    \/ analyzeFileToMarkdown_read
    \/ analyzeFileToMarkdown_reject
    \/ analyzeCorpus_start
    \/ analyzeCorpus_start_fail
    \/ analyzeSubredditPosts_chunk_issue
    \/ analyzeSubredditPosts_chunk_return
    \/ analyzeSubredditPosts_reduce_issue
    \/ analyzeSubredditPosts_reduce_return
    \/ extractTags_issue
    \/ extractTags_return
    \/ generateOpportunities_issue
    \/ generateOpportunities_return
    \/ generateFinalSynthesis_issue
    \/ generateFinalSynthesis_typeError
    \/ generateFinalSynthesis_return
    \/ chat_fail
    \/ analyzeCorpus_write_analysis
    \/ analyzeCorpus_write_opportunities
    \/ analyzeCorpus_write_fail

(***************************************************************************)
(* withRetry(fn, { maxRetries, baseDelayMs, onRetry }).                    *)
(*                                                                         *)
(* fn is scripted: its i-th invocation resolves when r_script[i].ok and    *)
(* rejects with r_script[i].err otherwise.  The failure object of the i-th *)
(* invocation is the pair << i, err >>, so that two failures with the same *)
(* status are still two objects.  The same script is run once with each    *)
(* kind of hook, and r_seen keeps what each call did.                      *)
(***************************************************************************)
NoErr == [statusCode |-> 0, rateLimitMsg |-> FALSE]
Outcomes == { [ok |-> TRUE, err |-> NoErr] } \cup { [ok |-> FALSE, err |-> e] : e \in Errors }
HookKinds == << "absent", "returns", "raises" >>
NoResult == [kind |-> "none", at |-> 0, err |-> NoErr, calls |-> 0]
BaseDelays == { 0, DefaultBaseDelayMs }

RECURSIVE pow2(_)
pow2(n) == IF n = 0 THEN 1 ELSE 2 * pow2(n - 1)

\* baseDelayMs * Math.pow(2, attempt)
delayFor(baseDelayMs, attempt) == baseDelayMs * pow2(attempt)

\* withRetry not called
r_Idle ==
    /\ r_maxRetries = DefaultMaxRetries
    /\ r_script = << >>
    /\ r_baseDelayMs = DefaultBaseDelayMs
    /\ r_onRetry = "absent"
    /\ r_pc = "unused"
    /\ r_attempt = 0
    /\ r_calls = 0
    /\ r_hookLog = << >>
    /\ r_lastError = << 0, NoErr >>
    /\ r_delayMs = 0
    /\ r_result = NoResult
    /\ r_seen = << >>

r_Init ==
    /\ r_maxRetries \in 0..MaxRetriesBound
    /\ r_script \in [1..(r_maxRetries + 1) -> Outcomes]
    /\ r_baseDelayMs \in BaseDelays
    /\ r_onRetry = "absent"
    /\ r_pc = "idle"
    /\ r_attempt = 0
    /\ r_calls = 0
    /\ r_hookLog = << >>
    /\ r_lastError = << 0, NoErr >>
    /\ r_delayMs = 0
    /\ r_result = NoResult
    /\ r_seen = << >>

\* the caller calls withRetry, with the next kind of hook
withRetry_call ==
    /\ r_pc = "idle"
    /\ Len(r_seen) < Len(HookKinds)
    /\ r_onRetry' = HookKinds[Len(r_seen) + 1]
    /\ r_pc' = "try"
    /\ r_attempt' = 0
    /\ r_calls' = 0
    /\ r_hookLog' = << >>
    /\ r_lastError' = << 0, NoErr >>
    /\ r_delayMs' = 0
    /\ r_result' = NoResult
    /\ UNCHANGED << r_script, r_maxRetries, r_baseDelayMs, r_seen >>
    /\ r_Others

\* return await fn(), fn resolving
withRetry_return ==
    /\ r_pc = "try"
    /\ r_attempt <= r_maxRetries
    /\ r_script[r_calls + 1].ok
    /\ r_calls' = r_calls + 1
    /\ r_result' = [kind |-> "returned", at |-> r_calls + 1, err |-> NoErr,
                    calls |-> r_calls + 1]
    /\ r_pc' = "done"
    /\ UNCHANGED << r_script, r_maxRetries, r_baseDelayMs, r_onRetry,
                    r_attempt, r_hookLog, r_lastError, r_delayMs, r_seen >>
    /\ r_Others

\* fn rejects and the catch block rethrows: not retryable, or no retry left
withRetry_throw ==
    /\ r_pc = "try"
    /\ r_attempt <= r_maxRetries
    /\ ~ r_script[r_calls + 1].ok
    /\ LET err == r_script[r_calls + 1].err
       IN  /\ ~ isRetryable(err) \/ r_attempt = r_maxRetries
           /\ r_lastError' = << r_calls + 1, err >>
           /\ r_result' = [kind |-> "raised", at |-> r_calls + 1, err |-> err,
                           calls |-> r_calls + 1]
    /\ r_calls' = r_calls + 1
    /\ r_pc' = "done"
    /\ UNCHANGED << r_script, r_maxRetries, r_baseDelayMs, r_onRetry,
                    r_attempt, r_hookLog, r_delayMs, r_seen >>
    /\ r_Others

\* fn rejects and the catch block goes on to retry
withRetry_catch ==
    /\ r_pc = "try"
    /\ r_attempt <= r_maxRetries
    /\ ~ r_script[r_calls + 1].ok
    /\ LET err == r_script[r_calls + 1].err
       IN  /\ ~ (~ isRetryable(err) \/ r_attempt = r_maxRetries)
           /\ r_lastError' = << r_calls + 1, err >>
    /\ r_calls' = r_calls + 1
    /\ r_delayMs' = delayFor(r_baseDelayMs, r_attempt)
    /\ r_pc' = "hook"
    /\ UNCHANGED << r_script, r_maxRetries, r_baseDelayMs, r_onRetry,
                    r_attempt, r_hookLog, r_result, r_seen >>
    /\ r_Others

hookArgs == [attempt |-> r_attempt + 1, maxRetries |-> r_maxRetries,
             delayMs |-> r_delayMs, error |-> r_lastError]

\* onRetry?.({ attempt: attempt + 1, maxRetries, delayMs, error: err })
withRetry_onRetry ==
    /\ r_pc = "hook"
    /\ r_onRetry # "raises"
    /\ r_hookLog' = IF r_onRetry = "absent" THEN r_hookLog
                    ELSE Append(r_hookLog, hookArgs)
    /\ r_pc' = "sleep"
    /\ UNCHANGED << r_script, r_maxRetries, r_baseDelayMs, r_onRetry,
                    r_attempt, r_calls, r_lastError, r_delayMs, r_result,
                    r_seen >>
    /\ r_Others

\* the hook raises inside the catch block: nothing catches it, and
\* withRetry rejects with the hook's failure
withRetry_onRetry_raises ==
    /\ r_pc = "hook"
    /\ r_onRetry = "raises"
    /\ r_hookLog' = Append(r_hookLog, hookArgs)
    /\ r_result' = [kind |-> "raised_by_hook", at |-> r_calls, err |-> NoErr,
                    calls |-> r_calls]
    /\ r_pc' = "done"
    /\ UNCHANGED << r_script, r_maxRetries, r_baseDelayMs, r_onRetry,
                    r_attempt, r_calls, r_lastError, r_delayMs, r_seen >>
    /\ r_Others

\* await sleep(delayMs), then attempt++
withRetry_sleep ==
    /\ r_pc = "sleep"
    /\ r_attempt' = r_attempt + 1
    /\ r_pc' = "try"
    /\ UNCHANGED << r_script, r_maxRetries, r_baseDelayMs, r_onRetry,
                    r_calls, r_hookLog, r_lastError, r_delayMs, r_result,
                    r_seen >>
    /\ r_Others

\* the caller has the outcome of the call
withRetry_settled ==
    /\ r_pc = "done"
    /\ r_seen' = Append(r_seen, [result |-> r_result, hookLog |-> r_hookLog])
    /\ r_pc' = "idle"
    /\ UNCHANGED << r_script, r_maxRetries, r_baseDelayMs, r_onRetry,
                    r_attempt, r_calls, r_hookLog, r_lastError, r_delayMs,
                    r_result >>
    /\ r_Others

r_Next ==
    \/ withRetry_call
    \/ withRetry_return
    \/ withRetry_throw
    \/ withRetry_catch
    \/ withRetry_onRetry
    \/ withRetry_onRetry_raises
    \/ withRetry_sleep
    \/ withRetry_settled

(***************************************************************************)
(* The dedupe index.                                                       *)
(*                                                                         *)
(* The index file is absent, holds text that JSON.parse rejects            *)
(* ("invalid"), or holds a document { posts: { id: { harvestedAt } } }.    *)
(* It may also be a path that readFile, writeFile and unlink all reject    *)
(* ("unreadable": a directory, or no permission), hold the JSON text null  *)
(* ("null"), or hold a JSON object without a posts member ("noposts").     *)
(***************************************************************************)
Ids == { "a", "b", "c" }
InitialIds == { "a" }
TrackerIds == { "a", "b" }
OtherIds == { "b", "c" }
Savers == { "tracker", "other" }
NoPosts == [i \in {} |-> 0]
AbsentFile == [kind |-> "absent", posts |-> NoPosts]
InvalidFile == [kind |-> "invalid", posts |-> NoPosts]
DocFile(posts) == [kind |-> "doc", posts |-> posts]

UnreadableFile == [kind |-> "unreadable", posts |-> NoPosts]
NullFile == [kind |-> "null", posts |-> NoPosts]
NoPostsFile == [kind |-> "noposts", posts |-> NoPosts]

\* the statements of the try block throw: readFile rejects, JSON.parse
\* throws, or .posts is read from null
tryThrows(file) == file.kind \in { "absent", "unreadable", "invalid", "null" }

\* fs.readFile + JSON.parse(content).posts || {}, {} when either throws
readPosts(file) == IF file.kind = "doc" THEN file.posts ELSE NoPosts

\* mutant: the catch block of loadDedupeIndex rethrows
loadDedupeIndex_catch_rethrows == [raised |-> TRUE, ids |-> {}]

\* catch { return new Set(); }
loadDedupeIndex_catch == [raised |-> FALSE, ids |-> {}]

\* loadDedupeIndex as a call: whether it raised, and the set it returned
loadDedupeIndex_call(file) ==
    IF tryThrows(file) THEN loadDedupeIndex_catch
    ELSE [raised |-> FALSE, ids |-> DOMAIN readPosts(file)]

\* loadDedupeIndex: new Set(Object.keys(data.posts || {})), empty on any throw
loadDedupeIndex(file) == loadDedupeIndex_call(file).ids

\* posts[id] = { harvestedAt: new Date().toISOString(), ...metadata }
stampPosts(postIds, now) == [i \in postIds |-> now]

\* mutant: { ...posts, ...existing }
mergePosts_existingWins(existing, posts) ==
    [i \in (DOMAIN existing) \cup (DOMAIN posts) |->
        IF i \in DOMAIN existing THEN existing[i] ELSE posts[i]]

\* mutant: the new entries replace the document
mergePosts_postsOnly(existing, posts) == posts

\* { ...existing, ...posts }
mergePosts(existing, posts) ==
    [i \in (DOMAIN existing) \cup (DOMAIN posts) |->
        IF i \in DOMAIN posts THEN posts[i] ELSE existing[i]]

d_Idle ==
    /\ d_disk = AbsentFile
    /\ d_now = 0
    /\ d_reset = "none"
    /\ t_pc = "unused"
    /\ t_existingIds = {}
    /\ t_newIds = {}
    /\ t_loaded = {}
    /\ t_kept = [i \in TrackerIds |-> 0]
    /\ s_pc = [s \in Savers |-> "unused"]
    /\ s_posts = [s \in Savers |-> NoPosts]
    /\ s_existing = [s \in Savers |-> NoPosts]
    /\ s_saves = [s \in Savers |-> 0]

d_Init ==
    /\ d_disk \in { AbsentFile, InvalidFile, UnreadableFile, NullFile, NoPostsFile }
                  \cup { DocFile([i \in S |-> 0]) : S \in SUBSET InitialIds }
    /\ d_now = 0
    /\ d_reset = "none"
    /\ t_pc = "none"
    /\ t_existingIds = {}
    /\ t_newIds = {}
    /\ t_loaded = {}
    /\ t_kept = [i \in TrackerIds |-> 0]
    /\ s_pc = [s \in Savers |-> "idle"]
    /\ s_posts = [s \in Savers |-> NoPosts]
    /\ s_existing = [s \in Savers |-> NoPosts]
    /\ s_saves = [s \in Savers |-> 0]

\* time passes
tick ==
    /\ d_now < MaxClock
    /\ d_now' = d_now + 1
    /\ UNCHANGED << d_disk, d_reset, t_pc, t_existingIds, t_newIds, t_loaded, t_kept, s_pc,
                    s_posts, s_existing, s_saves >>
    /\ d_Others

createDedupeTracker ==
    /\ t_pc = "none"
    /\ t_existingIds' = loadDedupeIndex(d_disk)
    /\ t_newIds' = {}
    /\ t_loaded' = DOMAIN readPosts(d_disk)
    /\ t_pc' = IF loadDedupeIndex_call(d_disk).raised THEN "failed" ELSE "ready"
    /\ UNCHANGED << d_disk, d_now, d_reset, t_kept, s_pc, s_posts, s_existing, s_saves >>
    /\ d_Others

\* mutant: has reports nothing
has_nothing(id) == FALSE

\* mutant: has also consults the ids added during this run
has_seesNewIds(id) == id \in t_existingIds \cup t_newIds

\* tracker.has(id)
has(id) == id \in t_existingIds

\* tracker.add(id)
add(id) == t_newIds \cup { id }

KeptTotal == t_kept["a"] + t_kept["b"]

\* harvestSubreddit, for one post a source returned that passed applyFilters:
\* the post is dropped when dedupeIndex.has(p.id), else it is pushed to the
\* results and dedupeIndex.add(p.id) records it
harvestSubreddit_post(id) ==
    /\ t_pc \in { "ready", "saved" }
    /\ KeptTotal < MaxKept
    /\ IF has(id)
          THEN UNCHANGED << t_kept, t_newIds, t_pc >>
          ELSE /\ t_kept' = [t_kept EXCEPT ![id] = t_kept[id] + 1]
               /\ t_newIds' = add(id)
               /\ t_pc' = "ready"
    /\ UNCHANGED << d_disk, d_now, d_reset, t_existingIds, t_loaded, s_pc, s_posts,
                    s_existing, s_saves >>
    /\ d_Others

\* saveDedupeIndex(outDir, postIds) up to its await of writeFile: the new
\* entries are stamped, the index file is read and the two are merged
saveDedupeIndex_read(s, postIds) ==
    /\ s_pc[s] = "idle"
    /\ s_saves[s] < MaxSaves
    /\ s_saves' = [s_saves EXCEPT ![s] = s_saves[s] + 1]
    /\ s_posts' = [s_posts EXCEPT ![s] = stampPosts(postIds, d_now)]
    /\ s_existing' = [s_existing EXCEPT ![s] = readPosts(d_disk)]
    /\ s_pc' = [s_pc EXCEPT ![s] = "writing"]

\* tracker.save() with something buffered
tracker_save ==
    /\ t_pc \in { "ready", "saved" }
    /\ t_newIds # {}
    /\ saveDedupeIndex_read("tracker", t_newIds)
    /\ t_pc' = "saving"
    /\ UNCHANGED << d_disk, d_now, d_reset, t_existingIds, t_newIds, t_loaded, t_kept >>
    /\ d_Others

\* mutant: save() calls saveDedupeIndex whatever newIds.size is
tracker_save_nothing_writes ==
    /\ t_pc = "ready"
    /\ t_newIds = {}
    /\ t_pc' = "saved"
    /\ d_disk' = DocFile(readPosts(d_disk))
    /\ UNCHANGED << d_now, d_reset, t_existingIds, t_newIds, t_loaded, t_kept, s_pc,
                    s_posts, s_existing, s_saves >>
    /\ d_Others

\* tracker.save() with nothing buffered
tracker_save_nothing ==
    /\ t_pc = "ready"
    /\ t_newIds = {}
    /\ t_pc' = "saved"
    /\ UNCHANGED << d_disk, d_now, d_reset, t_existingIds, t_newIds, t_loaded, t_kept, s_pc,
                    s_posts, s_existing, s_saves >>
    /\ d_Others

\* another process saves ids of its own into the same directory
other_save(postIds) ==
    /\ saveDedupeIndex_read("other", postIds)
    /\ UNCHANGED << d_disk, d_now, d_reset, t_pc, t_existingIds, t_newIds, t_loaded, t_kept >>
    /\ d_Others

\* saveDedupeIndex: the merged document is written; when writeFile rejects
\* the save rejects and the file stays as it is
saveDedupeIndex_write(s) ==
    /\ s_pc[s] = "writing"
    /\ d_disk' = IF d_disk.kind = "unreadable" THEN d_disk
                 ELSE DocFile(mergePosts(s_existing[s], s_posts[s]))
    /\ s_pc' = [s_pc EXCEPT ![s] = "idle"]
    /\ t_pc' = IF s # "tracker" THEN t_pc
               ELSE IF d_disk.kind = "unreadable" THEN "save_failed" ELSE "saved"
    /\ UNCHANGED << d_now, d_reset, t_existingIds, t_newIds, t_loaded, t_kept, s_posts,
                    s_existing, s_saves >>
    /\ d_Others

\* fs.unlink rejects
unlinkThrows(file) == file.kind \in { "absent", "unreadable" }

\* mutant: the catch block of resetDedupeIndex rethrows
resetDedupeIndex_catch_rethrows == "raised"

\* catch { }: the file did not exist, that's fine
resetDedupeIndex_catch == "done"

\* resetDedupeIndex: unlink, ignoring its failure
resetDedupeIndex ==
    /\ d_disk' = IF unlinkThrows(d_disk) THEN d_disk ELSE AbsentFile
    /\ d_reset' = IF unlinkThrows(d_disk) THEN resetDedupeIndex_catch ELSE "done"
    /\ UNCHANGED << d_now, t_pc, t_existingIds, t_newIds, t_loaded, t_kept, s_pc,
                    s_posts, s_existing, s_saves >>
    /\ d_Others

d_Next ==
    \/ tick
    \/ createDedupeTracker
    \/ \E id \in TrackerIds : harvestSubreddit_post(id)
    \/ tracker_save
    \/ tracker_save_nothing
    \/ \E id \in OtherIds : other_save({ id })
    \/ \E s \in Savers : saveDedupeIndex_write(s)
    \/ resetDedupeIndex

(***************************************************************************)
(* applyFilters and parseDateToUnix.                                       *)
(*                                                                         *)
(* Timestamps reach 1e12 and beyond, so a number n is kept as the pair     *)
(* [k, r] with n = 1000 * k + r and 0 <= r < 1000.                         *)
(***************************************************************************)
Num(k, r) == [k |-> k, r |-> r]
NumLt(a, b) == a.k < b.k \/ (a.k = b.k /\ a.r < b.r)
NumLeq(a, b) == a.k < b.k \/ (a.k = b.k /\ a.r <= b.r)
\* Math.floor(n / 1000)
floorDiv1000(a) == Num(a.k \div 1000, a.k % 1000)
E9 == Num(1000000, 0)
E12 == Num(1000000000, 0)
Null == [null |-> TRUE]
NaN == [nan |-> TRUE]

(***************************************************************************)
(* A date argument: null, the empty string, a number, a string of digits,  *)
(* an ISO-8601 string or some other text.  v is the number a number or a   *)
(* digit string denotes, and for an ISO string the instant in ms.          *)
(***************************************************************************)
NullArg == [kind |-> "null", v |-> Num(0, 0)]
EmptyArg == [kind |-> "empty", v |-> Num(0, 0)]
GarbageArg == [kind |-> "garbage", v |-> Num(0, 0)]
IsoArg == [kind |-> "iso", v |-> Num(1704067200, 500)]
NumericValues == { E9, Num(1700000, 0), E12, Num(1700000000, 999) }
DateArgs ==
    { NullArg, EmptyArg, GarbageArg, IsoArg }
    \cup { [kind |-> t, v |-> n] : t \in { "number", "digits" }, n \in NumericValues }

\* !dateStr
falsy(x) == x.kind \in { "null", "empty" } \/ (x.kind = "number" /\ x.v = Num(0, 0))
\* Number(dateStr)
Number(x) == IF x.kind \in { "number", "digits" } THEN x.v ELSE NaN
\* new Date(dateStr).getTime(): a number is an instant in ms, an ISO string
\* is parsed, a bare string of ten or more digits or other text is an
\* Invalid Date
getTime(x) == IF x.kind \in { "number", "iso" } THEN x.v ELSE NaN

parseDateToUnix(dateStr) ==
    IF falsy(dateStr) THEN Null
    ELSE LET n == Number(dateStr) IN
         IF n # NaN /\ NumLt(E9, n) /\ NumLt(n, E12) THEN n
         ELSE IF n # NaN /\ NumLt(E12, n) THEN floorDiv1000(n)
         ELSE LET d == getTime(dateStr) IN
              IF d = NaN THEN Null ELSE floorDiv1000(d)

\* p.field ?? 0
orZero(p, field) == IF field \in DOMAIN p THEN p[field] ELSE 0

FilterPosts ==
    { [id |-> "a", score |-> 5, num_comments |-> 2, created_utc |-> Num(1700000, 0)],
      [id |-> "b", score |-> 4, num_comments |-> 2, created_utc |-> Num(1699999, 999)],
      [id |-> "c", score |-> 5, num_comments |-> 1, created_utc |-> Num(1704067, 200)],
      [id |-> "d", score |-> 6, num_comments |-> 3, created_utc |-> Num(1704067, 201)] }
\* a minimum: null, NaN (Number() of text that is no number) or a number
NullMin == [kind |-> "null", v |-> 0]
NaNMin == [kind |-> "nan", v |-> 0]
NumMin(n) == [kind |-> "num", v |-> n]
MinScores == { NullMin, NaNMin, NumMin(5) }
MinComments == { NullMin, NumMin(2) }
FilterOpts == [ minScore : MinScores, minComments : MinComments,
                after : DateArgs, before : DateArgs ]

\* applyFilters not called
f_Idle ==
    /\ f_posts = << >>
    /\ f_opts = [minScore |-> NullMin, minComments |-> NullMin, after |-> NullArg,
                 before |-> NullArg]
    /\ f_pc = "unused"
    /\ f_filtered = << >>
    /\ f_afterTs = Null
    /\ f_beforeTs = Null

f_Init ==
    /\ f_posts \in SeqsUpTo(FilterPosts, MaxFilterPosts)
    /\ f_opts \in FilterOpts
    /\ f_pc = "minScore"
    /\ f_filtered = f_posts
    /\ f_afterTs = Null
    /\ f_beforeTs = Null

\* minX != null && !Number.isNaN(minX)
given(m) == m.kind = "num"

\* the four filter statements of applyFilters
byMinScore(filtered, minScore) ==
    IF given(minScore)
    THEN SelectSeq(filtered, LAMBDA p : orZero(p, "score") >= minScore.v)
    ELSE filtered
byMinComments(filtered, minComments) ==
    IF given(minComments)
    THEN SelectSeq(filtered, LAMBDA p : orZero(p, "num_comments") >= minComments.v)
    ELSE filtered
byAfter(filtered, afterTs) ==
    IF afterTs # Null
    THEN SelectSeq(filtered, LAMBDA p : NumLeq(afterTs, p.created_utc))
    ELSE filtered
byBefore(filtered, beforeTs) ==
    IF beforeTs # Null
    THEN SelectSeq(filtered, LAMBDA p : NumLeq(p.created_utc, beforeTs))
    ELSE filtered

\* applyFilters as one call
applyFilters(posts, opts) ==
    byBefore(byAfter(byMinComments(byMinScore(posts, opts.minScore),
                                   opts.minComments),
                     parseDateToUnix(opts.after)),
             parseDateToUnix(opts.before))

applyFilters_minScore ==
    /\ f_pc = "minScore"
    /\ f_filtered' = byMinScore(f_filtered, f_opts.minScore)
    /\ f_pc' = "minComments"
    /\ UNCHANGED << f_posts, f_opts, f_afterTs, f_beforeTs >>
    /\ f_Others

applyFilters_minComments ==
    /\ f_pc = "minComments"
    /\ f_filtered' = byMinComments(f_filtered, f_opts.minComments)
    /\ f_pc' = "after"
    /\ UNCHANGED << f_posts, f_opts, f_afterTs, f_beforeTs >>
    /\ f_Others

applyFilters_after ==
    /\ f_pc = "after"
    /\ f_afterTs' = parseDateToUnix(f_opts.after)
    /\ f_filtered' = byAfter(f_filtered, f_afterTs')
    /\ f_pc' = "before"
    /\ UNCHANGED << f_posts, f_opts, f_beforeTs >>
    /\ f_Others

applyFilters_before ==
    /\ f_pc = "before"
    /\ f_beforeTs' = parseDateToUnix(f_opts.before)
    /\ f_filtered' = byBefore(f_filtered, f_beforeTs')
    /\ f_pc' = "returned"
    /\ UNCHANGED << f_posts, f_opts, f_afterTs >>
    /\ f_Others

f_Next ==
    \/ applyFilters_minScore
    \/ applyFilters_minComments
    \/ applyFilters_after
    \/ applyFilters_before

(***************************************************************************)
(* chunkStringBySize on the characters of the string, statement by         *)
(* statement.                                                              *)
(***************************************************************************)
Chars == { "x", "y" }
Min(a, b) == IF a <= b THEN a ELSE b

\* mutant: the slice runs one character further
slice_oneMore(s, from, to) == SubSeq(s, from + 1, Min(to + 1, Len(s)))

\* s.slice(from, to), 0 <= from <= to
slice(s, from, to) == SubSeq(s, from + 1, Min(to, Len(s)))

\* the values of the argument input
StringInput(str) == [kind |-> "string", v |-> str]
NullInput == [kind |-> "null", v |-> << >>]
UndefinedInput == [kind |-> "undefined", v |-> << >>]
\* the argument maxChars: a number, or left out of the call
MaxCharsArg(n) == [given |-> TRUE, v |-> n]
NoMaxCharsArg == [given |-> FALSE, v |-> 0]

\* mutant: String(input), without the ?? ""
toS_noCoalesce(input) ==
    CASE input.kind = "string" -> input.v
      [] input.kind = "null" -> << "n", "u", "l", "l" >>
      [] OTHER -> << "u", "n", "d", "e", "f", "i", "n", "e", "d" >>

\* String(input ?? "")
toS(input) == IF input.kind \in { "null", "undefined" } THEN << >> ELSE input.v

\* maxChars = 12000 when the argument is not passed
maxCharsOrDefault(arg) == IF arg.given THEN arg.v ELSE DefaultMaxChars

\* chunkStringBySize not called
c_Idle ==
    /\ c_input = NullInput
    /\ c_maxArg = NoMaxCharsArg
    /\ c_s = << >>
    /\ c_maxChars = 1
    /\ c_pc = "unused"
    /\ c_i = 0
    /\ c_chunks = << >>

c_Init ==
    /\ c_input \in { StringInput(str) : str \in SeqsUpTo(Chars, MaxLen) }
                     \cup { NullInput, UndefinedInput }
    /\ c_maxArg \in { MaxCharsArg(n) : n \in 1..MaxChunk } \cup { NoMaxCharsArg }
    /\ c_s = << >>
    /\ c_maxChars = 1
    /\ c_pc = "called"
    /\ c_i = 0
    /\ c_chunks = << >>

\* const s = String(input ?? ""); if (s.length <= maxChars) return [s];
\* const chunks = []; let i = 0;
chunkStringBySize_enter ==
    /\ c_pc = "called"
    /\ c_s' = toS(c_input)
    /\ c_maxChars' = maxCharsOrDefault(c_maxArg)
    /\ IF Len(c_s') <= c_maxChars'
          THEN c_chunks' = << c_s' >> /\ c_pc' = "returned"
          ELSE c_chunks' = << >> /\ c_pc' = "loop"
    /\ c_i' = 0
    /\ UNCHANGED << c_input, c_maxArg >>
    /\ c_Others

\* while (i < s.length) { chunks.push(s.slice(i, i + maxChars)); i += maxChars; }
chunkStringBySize_push ==
    /\ c_pc = "loop"
    /\ c_i < Len(c_s)
    /\ c_chunks' = Append(c_chunks, slice(c_s, c_i, c_i + c_maxChars))
    /\ c_i' = c_i + c_maxChars
    /\ UNCHANGED << c_input, c_maxArg, c_s, c_maxChars, c_pc >>
    /\ c_Others

\* return chunks
chunkStringBySize_return ==
    /\ c_pc = "loop"
    /\ ~ (c_i < Len(c_s))
    /\ c_pc' = "returned"
    /\ UNCHANGED << c_input, c_maxArg, c_s, c_maxChars, c_i, c_chunks >>
    /\ c_Others

c_Next ==
    \/ chunkStringBySize_enter
    \/ chunkStringBySize_push
    \/ chunkStringBySize_return

(***************************************************************************)
(* Harvest runs: runHarvest from the construction of the tracker to its    *)
(* save, through harvestSubredditsToFiles and harvestSubreddit.  The runs  *)
(* follow one another on the same output directory with the same options,  *)
(* and the platform returns the same posts to each.                        *)
(***************************************************************************)
LF == "\n"
\* String.prototype.trim: white space off both ends
WhiteSpace == { " ", LF }
RECURSIVE trimStart(_)
trimStart(str) ==
    IF str # << >> /\ Head(str) \in WhiteSpace THEN trimStart(Tail(str)) ELSE str
RECURSIVE trimEnd(_)
trimEnd(str) ==
    IF str # << >> /\ str[Len(str)] \in WhiteSpace
    THEN trimEnd(SubSeq(str, 1, Len(str) - 1)) ELSE str
trim(str) == trimEnd(trimStart(str))

\* the subreddits argument of the run in hand
Subreddits == h_cfg.subreddits
\* the names a run may be given, with their characters: two subreddits, the
\* two of them read as one listing (r/s1+s2), and a third subreddit
nameChars(name) ==
    CASE name = "s1" -> << "s", "1" >>
      [] name = "s2" -> << "s", "2" >>
      [] name = "s1+s2" -> << "s", "1", "+", "s", "2" >>
      [] name = "s1_s2" -> << "s", "1", "_", "s", "2" >>
SubredditLists == { << "s1", "s2" >>, << "s1+s2", "s1_s2" >> }
\* [\w.-] among the characters of the names
NameChars == { "s", "1", "2", "_", "+", " " }
FileNameChars == { "s", "1", "2", "_" }
\* s without its first run of characters of the class
RECURSIVE dropRun(_, _)
dropRun(s, class) ==
    IF s # << >> /\ Head(s) \in class THEN dropRun(Tail(s), class) ELSE s
\* replaceAll(/X+/g, "_") where X is the class
RECURSIVE replaceRuns(_, _)
replaceRuns(s, class) ==
    IF s = << >> THEN << >>
    ELSE IF Head(s) \in class THEN << "_" >> \o replaceRuns(dropRun(s, class), class)
    ELSE << Head(s) >> \o replaceRuns(Tail(s), class)
reverse(s) == [j \in 1..Len(s) |-> s[Len(s) + 1 - j]]
\* replaceAll(/^_+|_+$/g, "")
stripUnderscores(s) == reverse(dropRun(reverse(dropRun(s, { "_" })), { "_" }))
sanitizeForFilename(name) ==
    stripUnderscores(
        replaceRuns(
            replaceRuns(trim(nameChars(name)), NameChars \ FileNameChars),
            { "_" }))
\* path.join(outDir, `${ts}-r_${sanitizeForFilename(sr)}.${ext}`); the time
\* stamp of a run is its number
filePath(ts, sr) == [ts |-> ts, name |-> << "r", "_" >> \o sanitizeForFilename(sr)]
\* fs.writeFile(filePath, contents): creates the file or replaces its contents
writeFile(dir, path, contents) ==
    { f \in dir : f.path # path } \cup { [path |-> path, contents |-> contents] }
\* the listings a run may be given: two that fetchPosts knows, one it does not
Listings == { "hot", "top", "rising" }
KnownListings == { "hot", "new", "top" }
RemotePost(id) == CHOOSE p \in FilterPosts : p.id = id
\* what the platform holds for each subreddit, and the message its failures
\* of expandReplies carry
Remotes ==
    { [s1 |-> << RemotePost("a"), RemotePost("b") >>,
       s2 |-> << RemotePost("b") >>, message |-> "Too Many Requests"]
        @@ ("s1+s2" :> << RemotePost("a"), RemotePost("b") >>)
        @@ ("s1_s2" :> << RemotePost("c") >>),
      [s1 |-> << >>, s2 |-> << RemotePost("c") >>, message |-> ""]
        @@ ("s1+s2" :> << RemotePost("c") >>)
        @@ ("s1_s2" :> << >>) }
\* the argument onProgress: left out, a function that returns, or a
\* function that throws
Consumers == { "absent", "ignores", "raises" }
\* a consumer that throws on the comments_expand_done event only
RaisesOnExpandDone == "raises_on_expand_done"
ConsumerMessage == "consumer"
\* the argument commentLimit
CommentLimits == { 0, 2 }
\* every combination of options on two subreddits, the plain listing of
\* the combined and the third subreddit, and the reply expansion under
\* other limits and consumers
HarvestCfgs ==
    [ listing : Listings, search : BOOLEAN, includeComments : BOOLEAN,
      dedupe : BOOLEAN, minScore : { NullMin, NumMin(5) },
      onProgress : Consumers, subreddits : { << "s1", "s2" >> },
      commentLimit : { 1 } ]
    \cup
    [ listing : { "hot" }, search : { FALSE }, includeComments : { FALSE },
      dedupe : BOOLEAN, minScore : { NullMin },
      onProgress : { "absent" }, subreddits : SubredditLists,
      commentLimit : { 1 } ]
    \cup
    [ listing : { "hot" }, search : { FALSE }, includeComments : { TRUE },
      dedupe : { FALSE }, minScore : { NullMin },
      onProgress : { "absent", RaisesOnExpandDone },
      subreddits : { << "s1", "s2" >> }, commentLimit : CommentLimits ]
filterOpts(cfg) == [minScore |-> cfg.minScore, minComments |-> NullMin,
                    after |-> NullArg, before |-> NullArg]
\* what expandReplies may deliver
ExpandResults == { << "c1", "c2" >> }
\* commentsToArray(...).slice(0, commentLimit), commentLimit >= 0
topLevel(comments, commentLimit) ==
    SubSeq(comments, 1, IF commentLimit < Len(comments) THEN commentLimit
                        ELSE Len(comments))
NoMarker == [present |-> FALSE, message |-> ""]
Marker(message) == [present |-> TRUE, message |-> message]
postData(p, comments, marker) ==
    [id |-> p.id, comments |-> comments, commentsError |-> marker]
NoHarvestFailure == [cause |-> "none", sr |-> ""]
event(ev, sr, id) == [ev |-> ev, sr |-> sr, id |-> id]

\* runHarvest not called
h_Idle ==
    /\ h_cfg = [listing |-> "hot", search |-> FALSE, includeComments |-> FALSE,
                dedupe |-> FALSE, minScore |-> NullMin, onProgress |-> "absent",
                subreddits |-> << >>, commentLimit |-> 1]
    /\ h_remote = [s1 |-> << >>, s2 |-> << >>, message |-> ""]
    /\ h_disk = AbsentFile
    /\ h_files = {}
    /\ h_dir = {}
    /\ h_outputs = << >>
    /\ h_run = 0
    /\ h_pc = "unused"
    /\ h_k = 0
    /\ h_posts = << >>
    /\ h_i = 0
    /\ h_results = << >>
    /\ h_existingIds = {}
    /\ h_newIds = {}
    /\ h_diskAtLoad = AbsentFile
    /\ h_log = << >>
    /\ h_events = << >>
    /\ h_failure = NoHarvestFailure
    /\ h_runs = << >>

h_Init ==
    /\ h_cfg \in HarvestCfgs
    /\ h_remote \in Remotes
    /\ h_disk \in { AbsentFile, UnreadableFile, DocFile([i \in { "a" } |-> 0]) }
    /\ h_files = {}
    /\ h_dir = {}
    /\ h_outputs = << >>
    /\ h_run = 1
    /\ h_pc = "start"
    /\ h_k = 0
    /\ h_posts = << >>
    /\ h_i = 0
    /\ h_results = << >>
    /\ h_existingIds = {}
    /\ h_newIds = {}
    /\ h_diskAtLoad = h_disk
    /\ h_log = << >>
    /\ h_events = << >>
    /\ h_failure = NoHarvestFailure
    /\ h_runs = << >>

h_sr == Subreddits[h_k]

\* a progress event
progress(type, sr, index, total) ==
    [type |-> type, subreddit |-> sr, index |-> index, total |-> total]

\* onProgress?.(e) for each of events, with a consumer that returns
onProgress(events) ==
    h_events' = IF h_cfg.onProgress = "absent" THEN h_events ELSE h_events \o events

\* the run ends: it returned, or it rejected with a failure
h_finish(outcome, failure) ==
    /\ h_pc' = outcome
    /\ h_failure' = failure
    /\ h_runs' = Append(h_runs, [outcome |-> outcome, cause |-> failure.cause,
                                 loaded |-> h_existingIds])

\* runHarvest: if (argv.dedupe) dedupeIndex = await createDedupeTracker(outDir)
runHarvest_createTracker ==
    /\ h_pc = "start"
    /\ h_existingIds' = IF h_cfg.dedupe THEN loadDedupeIndex(h_disk) ELSE {}
    /\ h_newIds' = {}
    /\ h_diskAtLoad' = h_disk
    /\ h_log' = IF h_cfg.dedupe THEN Append(h_log, event("load", "", "")) ELSE h_log
    /\ h_k' = 1
    /\ h_pc' = "fetch"
    /\ UNCHANGED << h_cfg, h_remote, h_disk, h_files, h_run, h_posts, h_i,
                    h_results, h_failure, h_runs >>
    /\ UNCHANGED << h_events, h_dir, h_outputs >>
    /\ h_Others

h_keepRun == UNCHANGED << h_cfg, h_remote, h_run, h_existingIds, h_diskAtLoad >>

\* onProgress?.({ type: "subreddit_start", ... }) with a consumer that throws:
\* nothing catches it, harvestSubreddit and the run reject
onProgress_raises ==
    /\ h_pc = "fetch"
    /\ h_cfg.onProgress = "raises"
    /\ h_events' = Append(h_events, progress("subreddit_start", h_sr, 0, 0))
    /\ h_finish("failed", [cause |-> "consumer", sr |-> h_sr])
    /\ UNCHANGED << h_disk, h_files, h_k, h_posts, h_i, h_results, h_newIds, h_log >>
    /\ h_keepRun
    /\ UNCHANGED << h_dir, h_outputs >>
    /\ h_Others

\* fetchPosts without a search keyword: throw new Error("Unknown listing: ...")
fetchPosts_unknownListing ==
    /\ h_pc = "fetch"
    /\ h_cfg.onProgress # "raises"
    /\ ~h_cfg.search
    /\ h_cfg.listing \notin KnownListings
    /\ h_finish("failed", [cause |-> "config", sr |-> h_sr])
    /\ UNCHANGED << h_disk, h_files, h_k, h_posts, h_i, h_results, h_newIds, h_log >>
    /\ h_keepRun
    /\ UNCHANGED << h_dir, h_outputs >>
    /\ onProgress(<< progress("subreddit_start", h_sr, 0, 0) >>)
    /\ h_Others

\* fetchPosts: sub.search(...) when a keyword is given, else getHot, getNew
\* or getTop; the request is sent
fetchPosts_call ==
    /\ h_pc = "fetch"
    /\ h_cfg.onProgress # "raises"
    /\ h_cfg.search \/ h_cfg.listing \in KnownListings
    /\ h_log' = Append(h_log, event("fetch", h_sr, ""))
    /\ h_pc' = "fetching"
    /\ UNCHANGED << h_disk, h_files, h_k, h_posts, h_i, h_results, h_newIds,
                    h_failure, h_runs >>
    /\ h_keepRun
    /\ UNCHANGED << h_dir, h_outputs >>
    /\ onProgress(<< progress("subreddit_start", h_sr, 0, 0) >>)
    /\ h_Others

\* mutant: the dedupe filter lets every post through
notSeen_always(id) == TRUE

\* posts.filter((p) => !dedupeIndex.has(p.id))
notSeen(id) == id \notin h_existingIds

\* harvestSubreddit: the posts arrive, applyFilters, then the dedupe filter
harvestSubreddit_fetched ==
    /\ h_pc = "fetching"
    /\ LET rawPosts == h_remote[h_sr]
           filtered == applyFilters(rawPosts, filterOpts(h_cfg))
           posts == IF h_cfg.dedupe
                    THEN SelectSeq(filtered, LAMBDA p : notSeen(p.id))
                    ELSE filtered
           skipped == Len(filtered) - Len(posts)
       IN  /\ h_posts' = posts
           /\ onProgress(<< progress("posts_fetched", h_sr, 0, Len(rawPosts)) >>
                         \o (IF h_cfg.dedupe /\ skipped > 0
                             THEN << progress("dedupe_skipped", h_sr, 0, skipped) >>
                             ELSE << >>)
                         \o << progress("posts_filtered", h_sr, 0, Len(posts)) >>)
    /\ h_i' = 1
    /\ h_results' = << >>
    /\ h_log' = Append(h_log, event("fetch_done", h_sr, ""))
    /\ h_pc' = "record"
    /\ UNCHANGED << h_disk, h_files, h_k, h_newIds, h_failure, h_runs >>
    /\ h_keepRun
    /\ UNCHANGED << h_dir, h_outputs >>
    /\ h_Others

\* mutant: a failed run removes the corpus files it had written
fetchPosts_rejects_cleansUp ==
    /\ h_pc = "fetching"
    /\ h_finish("failed", [cause |-> "fetch", sr |-> h_sr])
    /\ h_log' = Append(h_log, event("fetch_error", h_sr, ""))
    /\ UNCHANGED << h_disk, h_files, h_k, h_posts, h_i, h_results, h_newIds >>
    /\ h_keepRun
    /\ h_dir' = { e \in h_dir : e.path.ts # h_run }
    /\ UNCHANGED h_outputs
    /\ UNCHANGED h_events
    /\ h_Others

\* the request of fetchPosts rejects: harvestSubreddit, then the run, reject
fetchPosts_rejects ==
    /\ h_pc = "fetching"
    /\ h_finish("failed", [cause |-> "fetch", sr |-> h_sr])
    /\ h_log' = Append(h_log, event("fetch_error", h_sr, ""))
    /\ UNCHANGED << h_disk, h_files, h_k, h_posts, h_i, h_results, h_newIds >>
    /\ h_keepRun
    /\ UNCHANGED << h_dir, h_outputs >>
    /\ UNCHANGED h_events
    /\ h_Others

\* mutant: add(id) persists the id at once
dedupeIndex_add_writesThrough(id) ==
    /\ h_newIds' = h_newIds \cup { id }
    /\ h_disk' = IF h_disk.kind = "unreadable" THEN h_disk
                 ELSE DocFile(mergePosts(readPosts(h_disk), stampPosts({ id }, h_run)))

\* add(id) { newIds.add(id) }: the id is buffered, the file is left alone
dedupeIndex_add(id) ==
    /\ h_newIds' = h_newIds \cup { id }
    /\ h_disk' = h_disk

\* results.push(postData); if (dedupeIndex) dedupeIndex.add(p.id)
h_push(comments, marker) ==
    /\ h_results' = Append(h_results, postData(h_posts[h_i], comments, marker))
    /\ IF h_cfg.dedupe THEN dedupeIndex_add(h_posts[h_i].id)
                       ELSE UNCHANGED << h_newIds, h_disk >>
    /\ h_i' = h_i + 1
    /\ h_pc' = "record"

\* one turn of the loop without includeComments
harvestSubreddit_record ==
    /\ h_pc = "record"
    /\ h_i <= Len(h_posts)
    /\ ~h_cfg.includeComments
    /\ h_push(<< >>, NoMarker)
    /\ UNCHANGED << h_files, h_k, h_posts, h_log, h_failure, h_runs >>
    /\ h_keepRun
    /\ UNCHANGED << h_dir, h_outputs >>
    /\ onProgress(<< progress("post_progress", h_sr, h_i, Len(h_posts)) >>)
    /\ h_Others

\* the events of a turn of the loop up to the await of expandPostComments
expandStartEvents(sr, index, total) ==
    << progress("post_progress", sr, index, total),
       progress("comments_expand_start", sr, index, total) >>

\* mutant: the expansion is started and not awaited
expandPostComments_call_notAwaited ==
    /\ h_pc = "record"
    /\ h_i <= Len(h_posts)
    /\ h_cfg.includeComments
    /\ h_log' = Append(h_log, event("expand", h_sr, h_posts[h_i].id))
    /\ h_push(<< >>, NoMarker)
    /\ UNCHANGED << h_files, h_k, h_posts, h_failure, h_runs >>
    /\ h_keepRun
    /\ UNCHANGED << h_dir, h_outputs >>
    /\ onProgress(expandStartEvents(h_sr, h_i, Len(h_posts)))
    /\ h_Others

\* postData.comments = await expandPostComments(p, ...): the request is sent
expandPostComments_call ==
    /\ h_pc = "record"
    /\ h_i <= Len(h_posts)
    /\ h_cfg.includeComments
    /\ h_log' = Append(h_log, event("expand", h_sr, h_posts[h_i].id))
    /\ h_pc' = "expanding"
    /\ UNCHANGED << h_disk, h_files, h_k, h_posts, h_i, h_results, h_newIds,
                    h_failure, h_runs >>
    /\ h_keepRun
    /\ UNCHANGED << h_dir, h_outputs >>
    /\ onProgress(expandStartEvents(h_sr, h_i, Len(h_posts)))
    /\ h_Others

\* the replies arrive
expandPostComments_done ==
    /\ h_pc = "expanding"
    /\ h_cfg.onProgress # RaisesOnExpandDone
    /\ \E comments \in ExpandResults :
          h_push(topLevel(comments, h_cfg.commentLimit), NoMarker)
    /\ h_log' = Append(h_log, event("expand_done", h_sr, h_posts[h_i].id))
    /\ UNCHANGED << h_files, h_k, h_posts, h_failure, h_runs >>
    /\ h_keepRun
    /\ UNCHANGED << h_dir, h_outputs >>
    /\ onProgress(<< progress("comments_expand_done", h_sr, h_i, Len(h_posts)) >>)
    /\ h_Others

\* the replies arrive and are assigned to postData.comments; the consumer
\* throws on comments_expand_done inside the try, the catch block takes that
\* for a failed expansion, sets commentsError and emits comments_expand_error
expandPostComments_done_consumerRaises ==
    /\ h_pc = "expanding"
    /\ h_cfg.onProgress = RaisesOnExpandDone
    /\ \E comments \in ExpandResults :
          h_push(topLevel(comments, h_cfg.commentLimit), Marker(ConsumerMessage))
    /\ h_log' = Append(h_log, event("expand_done", h_sr, h_posts[h_i].id))
    /\ UNCHANGED << h_files, h_k, h_posts, h_failure, h_runs >>
    /\ h_keepRun
    /\ UNCHANGED << h_dir, h_outputs >>
    /\ onProgress(<< progress("comments_expand_done", h_sr, h_i, Len(h_posts)),
                     progress("comments_expand_error", h_sr, h_i, Len(h_posts)) >>)
    /\ h_Others

\* mutant: the failure of expandPostComments is not caught
expandPostComments_error_uncaught ==
    /\ h_pc = "expanding"
    /\ h_log' = Append(h_log, event("expand_error", h_sr, h_posts[h_i].id))
    /\ h_finish("failed", [cause |-> "expand", sr |-> h_sr])
    /\ UNCHANGED << h_disk, h_files, h_k, h_posts, h_i, h_results, h_newIds >>
    /\ h_keepRun
    /\ UNCHANGED << h_dir, h_outputs >>
    /\ UNCHANGED h_events
    /\ h_Others

\* catch (err) { postData.commentsError = safeText(err?.message ?? err) }
expandPostComments_error ==
    /\ h_pc = "expanding"
    /\ h_push(<< >>, Marker(h_remote.message))
    /\ h_log' = Append(h_log, event("expand_error", h_sr, h_posts[h_i].id))
    /\ UNCHANGED << h_files, h_k, h_posts, h_failure, h_runs >>
    /\ h_keepRun
    /\ UNCHANGED << h_dir, h_outputs >>
    /\ onProgress(<< progress("comments_expand_error", h_sr, h_i, Len(h_posts)) >>)
    /\ h_Others

\* return results: harvestSubredditsToFiles goes on to write the file
harvestSubreddit_return ==
    /\ h_pc = "record"
    /\ h_i > Len(h_posts)
    /\ h_pc' = "write"
    /\ UNCHANGED << h_disk, h_files, h_k, h_posts, h_i, h_results, h_newIds, h_log,
                    h_failure, h_runs >>
    /\ h_keepRun
    /\ UNCHANGED << h_dir, h_outputs >>
    /\ onProgress(<< progress("subreddit_done", h_sr, 0, 0) >>)
    /\ h_Others

\* await writeTextFile(filePath, content), then the next subreddit or the
\* return to runHarvest
writeTextFile_done ==
    /\ h_pc = "write"
    /\ h_files' = h_files \cup { [run |-> h_run, sr |-> h_sr, records |-> h_results] }
    /\ h_dir' = writeFile(h_dir, filePath(h_run, h_sr), h_results)
    /\ h_outputs' = Append(h_outputs, [subreddit |-> h_sr,
                                       filePath |-> filePath(h_run, h_sr),
                                       postCount |-> Len(h_results)])
    /\ h_log' = Append(h_log, event("file", h_sr, ""))
    /\ h_k' = IF h_k < Len(Subreddits) THEN h_k + 1 ELSE h_k
    /\ h_pc' = IF h_k < Len(Subreddits) THEN "fetch" ELSE "save"
    /\ UNCHANGED << h_disk, h_posts, h_i, h_results, h_newIds, h_failure, h_runs >>
    /\ h_keepRun
    /\ onProgress(<< progress("file_written", h_sr, 0, Len(h_results)) >>)
    /\ h_Others

\* writeTextFile rejects
writeTextFile_rejects ==
    /\ h_pc = "write"
    /\ h_finish("failed", [cause |-> "io", sr |-> h_sr])
    /\ UNCHANGED << h_disk, h_files, h_k, h_posts, h_i, h_results, h_newIds, h_log >>
    /\ h_keepRun
    /\ UNCHANGED << h_dir, h_outputs >>
    /\ UNCHANGED h_events
    /\ h_Others

\* mutant: the index is written after each run, buffered ids or not, with
\* only the ids of this run
runHarvest_save_overwrites ==
    /\ h_pc = "save"
    /\ h_cfg.dedupe
    /\ h_newIds # {}
    /\ h_disk.kind # "unreadable"
    /\ h_disk' = DocFile(stampPosts(h_newIds, h_run))
    /\ h_log' = Append(h_log, event("index_write", "", ""))
    /\ h_finish("done", NoHarvestFailure)
    /\ UNCHANGED << h_files, h_k, h_posts, h_i, h_results, h_newIds >>
    /\ h_keepRun
    /\ UNCHANGED << h_dir, h_outputs >>
    /\ UNCHANGED h_events
    /\ h_Others

\* if (dedupeIndex) await dedupeIndex.save(): saveDedupeIndex when newIds.size > 0
runHarvest_save ==
    /\ h_pc = "save"
    /\ h_cfg.dedupe
    /\ h_newIds # {}
    /\ h_disk.kind # "unreadable"
    /\ h_disk' = DocFile(mergePosts(readPosts(h_disk), stampPosts(h_newIds, h_run)))
    /\ h_log' = Append(h_log, event("index_write", "", ""))
    /\ h_finish("done", NoHarvestFailure)
    /\ UNCHANGED << h_files, h_k, h_posts, h_i, h_results, h_newIds >>
    /\ h_keepRun
    /\ UNCHANGED << h_dir, h_outputs >>
    /\ UNCHANGED h_events
    /\ h_Others

\* fs.writeFile of saveDedupeIndex rejects
runHarvest_save_rejects ==
    /\ h_pc = "save"
    /\ h_cfg.dedupe
    /\ h_newIds # {}
    /\ h_disk.kind = "unreadable"
    /\ h_finish("failed", [cause |-> "save", sr |-> ""])
    /\ UNCHANGED << h_disk, h_files, h_k, h_posts, h_i, h_results, h_newIds, h_log >>
    /\ h_keepRun
    /\ UNCHANGED << h_dir, h_outputs >>
    /\ UNCHANGED h_events
    /\ h_Others

\* no tracker, or nothing buffered: nothing is written
runHarvest_nosave ==
    /\ h_pc = "save"
    /\ ~h_cfg.dedupe \/ h_newIds = {}
    /\ h_finish("done", NoHarvestFailure)
    /\ UNCHANGED << h_disk, h_files, h_k, h_posts, h_i, h_results, h_newIds, h_log >>
    /\ h_keepRun
    /\ UNCHANGED << h_dir, h_outputs >>
    /\ UNCHANGED h_events
    /\ h_Others

\* the command is run again on the same directory with the same options
runHarvest_again ==
    /\ h_pc \in { "done", "failed" }
    /\ h_run < MaxRuns
    /\ h_run' = h_run + 1
    /\ h_pc' = "start"
    /\ h_k' = 0
    /\ h_posts' = << >>
    /\ h_i' = 0
    /\ h_results' = << >>
    /\ h_existingIds' = {}
    /\ h_newIds' = {}
    /\ h_diskAtLoad' = h_disk
    /\ h_log' = << >>
    /\ h_events' = << >>
    /\ h_outputs' = << >>
    /\ h_failure' = NoHarvestFailure
    /\ UNCHANGED << h_cfg, h_remote, h_disk, h_files, h_dir, h_runs >>
    /\ h_Others

h_Next ==
    \/ runHarvest_createTracker
    \/ onProgress_raises
    \/ fetchPosts_unknownListing
    \/ fetchPosts_call
    \/ harvestSubreddit_fetched
    \/ fetchPosts_rejects
    \/ harvestSubreddit_record
    \/ expandPostComments_call
    \/ expandPostComments_done
    \/ expandPostComments_done_consumerRaises
    \/ expandPostComments_error
    \/ harvestSubreddit_return
    \/ writeTextFile_done
    \/ writeTextFile_rejects
    \/ runHarvest_save
    \/ runHarvest_save_rejects
    \/ runHarvest_nosave
    \/ runHarvest_again

(***************************************************************************)
(* The formatters.  Text is a sequence of characters; a JavaScript value   *)
(* that JSON can hold is a string, a digit, an array or an object with its *)
(* members in insertion order.                                             *)
(***************************************************************************)
QUOTE == "\""
BACKSLASH == "\\"
JStr(str) == [t |-> "str", s |-> str]
JNum(n) == [t |-> "num", n |-> n]
JArr(items) == [t |-> "arr", items |-> items]
JObj(members) == [t |-> "obj", members |-> members]
member(k, v) == [k |-> k, v |-> v]
Digits == << "0", "1", "2", "3", "4", "5", "6", "7", "8", "9" >>

\* mutant: quotes and backslashes are escaped, line feeds are not
RECURSIVE escape_keepsLineFeed(_)
escape_keepsLineFeed(str) ==
    IF str = << >> THEN << >>
    ELSE (IF Head(str) \in { QUOTE, BACKSLASH } THEN << BACKSLASH, Head(str) >>
          ELSE << Head(str) >>) \o escape_keepsLineFeed(Tail(str))

\* JSON.stringify of the characters of a string: \" \\ and \n are escaped
RECURSIVE escape(_)
escape(str) ==
    IF str = << >> THEN << >>
    ELSE (IF Head(str) = LF THEN << BACKSLASH, "n" >>
          ELSE IF Head(str) \in { QUOTE, BACKSLASH } THEN << BACKSLASH, Head(str) >>
          ELSE << Head(str) >>) \o escape(Tail(str))

quote(str) == << QUOTE >> \o escape(str) \o << QUOTE >>

\* JSON.stringify(value), without indentation
RECURSIVE stringify(_)
RECURSIVE stringifyItems(_)
RECURSIVE stringifyMembers(_)
stringify(v) ==
    CASE v.t = "str" -> quote(v.s)
      [] v.t = "num" -> << Digits[v.n + 1] >>
      [] v.t = "arr" -> << "[" >> \o stringifyItems(v.items) \o << "]" >>
      [] v.t = "obj" -> << "{" >> \o stringifyMembers(v.members) \o << "}" >>
stringifyItems(items) ==
    IF items = << >> THEN << >>
    ELSE stringify(Head(items))
         \o (IF Tail(items) = << >> THEN << >>
             ELSE << "," >> \o stringifyItems(Tail(items)))
stringifyMembers(members) ==
    IF members = << >> THEN << >>
    ELSE quote(Head(members).k) \o << ":" >> \o stringify(Head(members).v)
         \o (IF Tail(members) = << >> THEN << >>
             ELSE << "," >> \o stringifyMembers(Tail(members)))

\* JSON.parse: the value read and the position after it, or a SyntaxError
SyntaxError == [t |-> "SyntaxError"]
parsed(v, next) == [ok |-> TRUE, v |-> v, next |-> next]
parseFails == [ok |-> FALSE, v |-> SyntaxError, next |-> 0]
isDigit(c) == \E d \in 1..10 : Digits[d] = c
digitOf(c) == (CHOOSE d \in 1..10 : Digits[d] = c) - 1

RECURSIVE parseString(_, _, _)
RECURSIVE parseValue(_, _)
RECURSIVE parseItems(_, _, _)
RECURSIVE parseMembers(_, _, _)
\* the characters after an opening quote, up to the closing one
parseString(t, i, acc) ==
    IF i > Len(t) THEN parseFails
    ELSE IF t[i] = QUOTE THEN parsed(JStr(acc), i + 1)
    ELSE IF t[i] = LF THEN parseFails
    ELSE IF t[i] = BACKSLASH
         THEN IF i + 1 > Len(t) THEN parseFails
              ELSE IF t[i + 1] = "n" THEN parseString(t, i + 2, Append(acc, LF))
              ELSE IF t[i + 1] \in { QUOTE, BACKSLASH }
                   THEN parseString(t, i + 2, Append(acc, t[i + 1]))
              ELSE parseFails
    ELSE parseString(t, i + 1, Append(acc, t[i]))
parseValue(t, i) ==
    IF i > Len(t) THEN parseFails
    ELSE IF t[i] = QUOTE THEN parseString(t, i + 1, << >>)
    ELSE IF isDigit(t[i]) THEN parsed(JNum(digitOf(t[i])), i + 1)
    ELSE IF t[i] = "["
         THEN IF i + 1 <= Len(t) /\ t[i + 1] = "]" THEN parsed(JArr(<< >>), i + 2)
              ELSE parseItems(t, i + 1, << >>)
    ELSE IF t[i] = "{"
         THEN IF i + 1 <= Len(t) /\ t[i + 1] = "}" THEN parsed(JObj(<< >>), i + 2)
              ELSE parseMembers(t, i + 1, << >>)
    ELSE parseFails
parseItems(t, i, acc) ==
    LET r == parseValue(t, i) IN
    IF ~r.ok \/ r.next > Len(t) THEN parseFails
    ELSE IF t[r.next] = "," THEN parseItems(t, r.next + 1, Append(acc, r.v))
    ELSE IF t[r.next] = "]" THEN parsed(JArr(Append(acc, r.v)), r.next + 1)
    ELSE parseFails
parseMembers(t, i, acc) ==
    IF i > Len(t) \/ t[i] # QUOTE THEN parseFails
    ELSE LET k == parseString(t, i + 1, << >>) IN
         IF ~k.ok \/ k.next > Len(t) \/ t[k.next] # ":" THEN parseFails
         ELSE LET r == parseValue(t, k.next + 1) IN
              IF ~r.ok \/ r.next > Len(t) THEN parseFails
              ELSE IF t[r.next] = ","
                   THEN parseMembers(t, r.next + 1, Append(acc, member(k.v.s, r.v)))
              ELSE IF t[r.next] = "}"
                   THEN parsed(JObj(Append(acc, member(k.v.s, r.v))), r.next + 1)
              ELSE parseFails


\* JSON.parse(line): white space around the value is skipped
JSON_parse(line) ==
    LET t == trim(line)
        r == parseValue(t, 1)
    IN  IF r.ok /\ r.next = Len(t) + 1 THEN r.v ELSE SyntaxError

\* content.split("\n"): the pieces between the line feeds
split(content) ==
    LET feeds == { j \in 1..Len(content) : content[j] = LF }
        feed(k) == IF k = 0 THEN 0
                   ELSE IF k = Cardinality(feeds) + 1 THEN Len(content) + 1
                   ELSE CHOOSE j \in feeds : Cardinality({ x \in feeds : x < j }) = k - 1
    IN  [k \in 1..(Cardinality(feeds) + 1) |->
            SubSeq(content, feed(k - 1) + 1, feed(k) - 1)]

\* items.join("\n")
RECURSIVE join(_)
join(items) ==
    IF items = << >> THEN << >>
    ELSE IF Tail(items) = << >> THEN Head(items)
    ELSE Head(items) \o << LF >> \o join(Tail(items))

\* posts.map((p) => JSON.stringify(p)).join("\n") + "\n"
formatPostsToJSONL(posts) ==
    join([j \in 1..Len(posts) |-> stringify(posts[j])]) \o << LF >>

\* content.split("\n").filter((line) => line.trim()).map((line) => JSON.parse(line))
parseJSONL(content) ==
    LET lines == SelectSeq(split(content), LAMBDA line : trim(line) # << >>)
        values == [j \in 1..Len(lines) |-> JSON_parse(lines[j])]
    IN  IF \E j \in 1..Len(lines) : values[j].t = "SyntaxError"
        THEN [threw |-> TRUE, values |-> << >>]
        ELSE [threw |-> FALSE, values |-> values]

\* the property names of a record, as characters
K_id == << "i", "d" >>
K_score == << "s", "c", "o", "r", "e" >>
K_comments == << "c", "o", "m", "m", "e", "n", "t", "s" >>
K_body == << "b", "o", "d", "y" >>
K_commentsError == K_comments \o << "E", "r", "r", "o", "r" >>

\* the object harvestSubreddit builds for a post: commentsError is set last,
\* and only when the expansion failed
jsComment(c) == JObj(<< member(K_body, JStr(c.body)) >>)
jsObject(p) ==
    JObj(<< member(K_id, JStr(p.id)),
            member(K_score, JNum(p.score)),
            member(K_comments,
                   JArr([j \in 1..Len(p.comments) |-> jsComment(p.comments[j])])) >>
         \o (IF p.commentsError.present
             THEN << member(K_commentsError, JStr(p.commentsError.message)) >>
             ELSE << >>))
jsObjects(posts) == [j \in 1..Len(posts) |-> jsObject(posts[j])]

\* the records the formatters are applied to
FormatPosts ==
    { [id |-> << "x" >>, score |-> 0, comments |-> << >>, commentsError |-> NoMarker],
      [id |-> << "x", LF, "x" >>, score |-> 7,
       comments |-> << [body |-> << QUOTE >>] >>, commentsError |-> NoMarker],
      [id |-> << BACKSLASH, "n" >>, score |-> 0,
       comments |-> << [body |-> << " " >>], [body |-> << "x", " " >>] >>,
       commentsError |-> NoMarker],
      [id |-> << " " >>, score |-> 7, comments |-> << >>,
       commentsError |-> Marker(<< "e" >>)],
      [id |-> << "y" >>, score |-> 0, comments |-> << >>,
       commentsError |-> Marker(<< >>)],
      [id |-> << >>, score |-> 0, comments |-> << [body |-> << >>] >>,
       commentsError |-> NoMarker] }

\* the argument search: null, or a string
NullSearch == [kind |-> "null", v |-> << >>]
Search(str) == [kind |-> "string", v |-> str]
TextOpts == [ subreddit : { "s1" }, listing : { "hot", "top" }, time : { "week" },
              limit : { 25 }, includeComments : BOOLEAN, commentLimit : { 50 },
              search : { NullSearch, Search(<< >>), Search(<< "k" >>) } ]

\* a string in a condition: the empty string is false
truthy(str) == str # << >>

\* mutant: the listing line whatever search is
sourceLine_listing(opts) ==
    [k |-> "listing", v |-> opts.listing,
     window |-> IF opts.listing = "top" THEN opts.time ELSE ""]

\* search ? `search: "..."` : `listing: ...`, with ` (time)` for top
sourceLine(opts) ==
    IF opts.search.kind = "string" /\ truthy(opts.search.v)
    THEN [k |-> "search", v |-> opts.search.v]
    ELSE [k |-> "listing", v |-> opts.listing,
          window |-> IF opts.listing = "top" THEN opts.time ELSE ""]

\* the lines of the header
header(posts, opts) ==
    << [k |-> "# Reddit corpus export"],
       [k |-> "subreddit", v |-> opts.subreddit],
       sourceLine(opts),
       [k |-> "limit", n |-> opts.limit],
       [k |-> "includeComments", b |-> opts.includeComments],
       [k |-> "commentLimit", n |-> IF opts.includeComments THEN opts.commentLimit ELSE 0],
       [k |-> "postsHarvested", n |-> Len(posts)],
       [k |-> "exportedAt", v |-> NowStamp],
       [k |-> ""] >>

\* the lines of the section of post i
postSection(posts, i) ==
    << [k |-> "---"],
       [k |-> "POST", i |-> i, n |-> Len(posts)],
       [k |-> "id", v |-> posts[i].id],
       [k |-> "score", n |-> posts[i].score],
       [k |-> ""] >>

\* the lines of one reply: body.trim() || "(empty)"
commentLines(c, idx) ==
    << [k |-> "- comment", n |-> idx],
       [k |-> "  body", v |-> IF truthy(trim(c.body)) THEN trim(c.body)
                              ELSE << "(", "e", "m", "p", "t", "y", ")" >>] >>

RECURSIVE flatten(_)
flatten(seqs) == IF seqs = << >> THEN << >> ELSE Head(seqs) \o flatten(Tail(seqs))

\* if (p.commentsError): a marker whose message is not the empty string
hasCommentsError(p) == p.commentsError.present /\ truthy(p.commentsError.message)

\* the lines pushed for the replies of a post
commentsSection(p, includeComments) ==
    IF ~includeComments THEN << >>
    ELSE IF hasCommentsError(p)
    THEN << [k |-> "comments:"], [k |-> "(error)", v |-> p.commentsError.message],
            [k |-> ""] >>
    ELSE IF Len(p.comments) = 0
    THEN << [k |-> "comments:"], [k |-> "(none)"], [k |-> ""] >>
    ELSE << [k |-> "comments:"] >>
         \o flatten([j \in 1..Len(p.comments) |-> commentLines(p.comments[j], j)])
         \o << [k |-> ""] >>

\* formatPostsToText: sections.join("\n"), as the lines of the text
formatPostsToText(posts, opts) ==
    header(posts, opts)
    \o flatten([i \in 1..Len(posts) |->
                   postSection(posts, i)
                   \o commentsSection(posts[i], opts.includeComments)])

\* no formatter called
o_Idle ==
    /\ o_posts = << >>
    /\ o_opts = [subreddit |-> "s1", listing |-> "hot", time |-> "week",
                 limit |-> 25, includeComments |-> FALSE, commentLimit |-> 50,
                 search |-> NullSearch]
    /\ o_pc = "unused"
    /\ o_jsonl = << >>
    /\ o_parsed = [threw |-> FALSE, values |-> << >>]
    /\ o_jsonl2 = << >>
    /\ o_text = << >>

o_Init ==
    /\ o_posts \in SeqsUpTo(FormatPosts, MaxRecords)
    /\ o_opts \in TextOpts
    /\ o_pc = "start"
    /\ o_jsonl = << >>
    /\ o_parsed = [threw |-> FALSE, values |-> << >>]
    /\ o_jsonl2 = << >>
    /\ o_text = << >>

\* formatPostsToJSONL(posts)
formatPostsToJSONL_call ==
    /\ o_pc = "start"
    /\ o_jsonl' = formatPostsToJSONL(jsObjects(o_posts))
    /\ o_pc' = "formatted"
    /\ UNCHANGED << o_posts, o_opts, o_parsed, o_jsonl2, o_text >>
    /\ o_Others

\* parseJSONL of that text
parseJSONL_call ==
    /\ o_pc = "formatted"
    /\ o_parsed' = parseJSONL(o_jsonl)
    /\ o_pc' = "parsed"
    /\ UNCHANGED << o_posts, o_opts, o_jsonl, o_jsonl2, o_text >>
    /\ o_Others

\* formatPostsToJSONL of what was parsed
formatPostsToJSONL_parsed ==
    /\ o_pc = "parsed"
    /\ ~o_parsed.threw
    /\ o_jsonl2' = formatPostsToJSONL(o_parsed.values)
    /\ o_pc' = "reformatted"
    /\ UNCHANGED << o_posts, o_opts, o_jsonl, o_parsed, o_text >>
    /\ o_Others

\* formatPostsToText(posts, opts)
formatPostsToText_call ==
    /\ o_pc = "start"
    /\ o_text' = formatPostsToText(o_posts, o_opts)
    /\ o_pc' = "text"
    /\ UNCHANGED << o_posts, o_opts, o_jsonl, o_parsed, o_jsonl2 >>
    /\ o_Others

o_Next ==
    \/ formatPostsToJSONL_call
    \/ parseJSONL_call
    \/ formatPostsToJSONL_parsed
    \/ formatPostsToText_call

InitAnalyze == a_Init /\ r_Idle /\ d_Idle /\ f_Idle /\ c_Idle /\ h_Idle /\ o_Idle
SpecAnalyze == InitAnalyze /\ [][a_Next]_vars

InitRetry == r_Init /\ a_Idle /\ d_Idle /\ f_Idle /\ c_Idle /\ h_Idle /\ o_Idle
SpecRetry == InitRetry /\ [][r_Next]_vars

InitDedupe == d_Init /\ a_Idle /\ r_Idle /\ f_Idle /\ c_Idle /\ h_Idle /\ o_Idle
SpecDedupe == InitDedupe /\ [][d_Next]_vars

InitFilter == f_Init /\ a_Idle /\ r_Idle /\ d_Idle /\ c_Idle /\ h_Idle /\ o_Idle
SpecFilter == InitFilter /\ [][f_Next]_vars

\* the call runs to its end: its statements are the only steps, never withheld
InitChunk == c_Init /\ a_Idle /\ r_Idle /\ d_Idle /\ f_Idle /\ h_Idle /\ o_Idle
SpecChunk == InitChunk /\ [][c_Next]_vars /\ WF_vars(c_Next)
InitHarvest == h_Init /\ a_Idle /\ r_Idle /\ d_Idle /\ f_Idle /\ c_Idle /\ o_Idle
SpecHarvest == InitHarvest /\ [][h_Next]_vars
InitFormat == o_Init /\ a_Idle /\ r_Idle /\ d_Idle /\ f_Idle /\ c_Idle /\ h_Idle
SpecFormat == InitFormat /\ [][o_Next]_vars

\* a harvest run or an analysis run: the two kinds of run that send requests
InitRuns ==
    /\ (h_Init /\ a_Idle) \/ (a_Init /\ h_Idle)
    /\ r_Idle /\ d_Idle /\ f_Idle /\ c_Idle /\ o_Idle
SpecRuns == InitRuns /\ [][h_Next \/ a_Next]_vars

(***************************************************************************)
(* Reading the request log of analyzeCorpus.                               *)
(***************************************************************************)
LogIdx == 1..Len(a_log)
issuedAt(j, req) == a_log[j].ev = "issue" /\ a_log[j].req = req
returnedBefore(j, req) ==
    \E m \in 1..(j - 1) : a_log[m].ev = "return" /\ a_log[m].req = req
returnedEver(req) == returnedBefore(Len(a_log) + 1, req)
chunksOfSource(s) ==
    chunkStringBySize(postsToTextLen(postsOf(a_posts, a_groups[s])), MAX_CHARS)
stage1Requests ==
    { [stage |-> 1, kind |-> "reduce", src |-> s, k |-> 0] : s \in 1..Len(a_groups) }
    \cup UNION { { [stage |-> 1, kind |-> "chunk", src |-> s, k |-> c] :
                     c \in 1..Len(chunksOfSource(s)) } : s \in 1..Len(a_groups) }
responseTo(req) ==
    { a_log[m].text : m \in { i \in LogIdx : a_log[i].ev = "return" /\ a_log[i].req = req } }
tagInvalid == \E t \in responseTo(tagReq) : ~ JSONParse(t).ok
oppInvalid == \E t \in responseTo(oppReq) : ~ JSONParse(t).ok

(***************************************************************************)
(* C1: completion requests are issued strictly in stage order.  When a     *)
(* request is issued every request issued earlier has returned and belongs *)
(* to the same or an earlier stage; the tag request is issued once, after  *)
(* every chunk request and the reduce request of every source have         *)
(* returned; the opportunity request once, after the tag request has       *)
(* returned; the synthesis request once, after the opportunity request has *)
(* returned; a file is written only after the synthesis request returned.  *)
(***************************************************************************)
C1_StageOrder ==
    \A j \in LogIdx :
        LET e == a_log[j] IN
        /\ e.ev = "issue" =>
              /\ \A i \in 1..(j - 1) :
                    a_log[i].ev = "issue" =>
                       /\ a_log[i].req.stage <= e.req.stage
                       /\ a_log[i].req # e.req
                       /\ returnedBefore(j, a_log[i].req)
              /\ e.req.stage = 1 => e.req \in stage1Requests
              /\ e.req.stage = 2 =>
                    e.req = tagReq /\ \A q \in stage1Requests : returnedBefore(j, q)
              /\ e.req.stage = 3 => e.req = oppReq /\ returnedBefore(j, tagReq)
              /\ e.req.stage = 4 => e.req = synthReq /\ returnedBefore(j, oppReq)
        /\ e.ev = "write" => returnedBefore(j, synthReq)

C1_Witness ==
    /\ a_pc = "Done"
    /\ Len(a_groups) = 2
    /\ \E s \in 1..Len(a_groups) : Len(chunksOfSource(s)) = 2
    /\ a_files = { analysisPath, opportunitiesPath }

(***************************************************************************)
(* C2: once a completion request has failed, in whichever stage,           *)
(* analyzeCorpus has failed, the failure is the last entry of the request  *)
(* log (no request is issued after it, none is in flight) and the output   *)
(* directory holds neither artifact.                                       *)
(***************************************************************************)
C2_RequestFailureIsFatal ==
    /\ (\E j \in LogIdx : a_log[j].ev = "fail") =>
          /\ a_pc = "Failed"
          /\ a_failure.cause = "request"
          /\ a_log[Len(a_log)].ev = "fail"
          /\ a_failure.stage = a_log[Len(a_log)].req.stage
          /\ a_out = NoReq
          /\ a_files = {}
    /\ \A j \in LogIdx : a_log[j].ev = "fail" => j = Len(a_log)

C2_Witness ==
    /\ a_pc = "Failed"
    /\ a_failure.cause = "request"
    /\ a_failure.stage = 4
    /\ a_opps.shape = "array"
    /\ a_files = {}

(***************************************************************************)
(* C3: a stage-2 or stage-3 response that is not valid JSON does not fail  *)
(* the run.  Stage 2 then yields the error object carrying the raw         *)
(* response, stage 3 the one-element error array carrying the raw          *)
(* response; the pipeline moves on to the next stage, and if it fails      *)
(* later it fails on a request, on a file write, or on a stage-3 response  *)
(* that did parse; a run that is Done has issued the remaining requests    *)
(* and written both artifacts.                                             *)
(***************************************************************************)
C3_ParseFailureRecovered ==
    /\ \A t \in responseTo(tagReq) :
          ~ JSONParse(t).ok =>
             /\ a_tags = [shape |-> "error_object", error |-> "Failed to parse tags",
                          raw |-> t]
             /\ a_pc \in { "Opp", "Synth", "WriteAnalysis", "WriteOpportunities",
                           "Done", "Failed" }
    /\ \A t \in responseTo(oppReq) :
          ~ JSONParse(t).ok =>
             /\ a_opps = [shape |-> "error_array",
                          error |-> "Failed to parse opportunities", raw |-> t]
             /\ a_pc \in { "Synth", "WriteAnalysis", "WriteOpportunities",
                           "Done", "Failed" }
             /\ a_failure.cause # "type_error"
    /\ (tagInvalid \/ oppInvalid) /\ a_pc = "Failed" =>
          a_failure.cause \in { "request", "io", "type_error" }
    /\ (tagInvalid \/ oppInvalid) /\ a_pc = "Done" =>
          /\ returnedEver(oppReq)
          /\ returnedEver(synthReq)
          /\ a_files = { analysisPath, opportunitiesPath }

C3_Witness ==
    /\ a_pc = "Done"
    /\ tagInvalid
    /\ oppInvalid
    /\ a_files = { analysisPath, opportunitiesPath }

(***************************************************************************)
(* C4: every completion request runs through withRetry.  A run that failed *)
(* on a request whose failure was retryable (429, rate limit, 5xx) failed  *)
(* only after the retry budget was spent: the request that failed was      *)
(* issued maxRetries+1 times.                                              *)
(***************************************************************************)
issuesOf(req) == Cardinality({ j \in LogIdx : issuedAt(j, req) })

C4_RetriedUntilBudgetExhausted ==
    a_pc = "Failed" /\ a_failure.cause = "request" /\ isRetryable(a_failure.err) =>
       issuesOf(a_log[Len(a_log)].req) = DefaultMaxRetries + 1

(***************************************************************************)
(* Reading a finished withRetry call.                                      *)
(***************************************************************************)
retryableFailure(o) == ~ o.ok /\ isRetryable(o.err)
\* fn fails retryably on its first k invocations
failsFirst(k) == \A i \in 1..k : retryableFailure(r_script[i])
strictlyIncreasing(log) ==
    \A i \in 1..(Len(log) - 1) : log[i].delayMs < log[i + 1].delayMs

(***************************************************************************)
(* C5: for every k in 0..maxRetries, when fn fails with a retryable error  *)
(* on its first k invocations and succeeds on invocation k+1, withRetry    *)
(* returns that success after exactly k+1 invocations, and a hook that was *)
(* supplied has been called exactly k times, the i-th call with attempt i  *)
(* and delay baseDelayMs*2^(i-1), the delays strictly increasing.          *)
(***************************************************************************)
C5_RetryThenSuccess ==
    r_pc = "done" =>
       \A k \in 0..r_maxRetries :
          failsFirst(k) /\ r_script[k + 1].ok =>
             /\ r_result.kind = "returned"
             /\ r_result.at = k + 1
             /\ r_calls = k + 1
             /\ r_onRetry # "absent" =>
                   /\ Len(r_hookLog) = k
                   /\ \A i \in 1..Len(r_hookLog) :
                         /\ r_hookLog[i].attempt = i
                         /\ r_hookLog[i].delayMs = r_baseDelayMs * pow2(i - 1)
                   /\ strictlyIncreasing(r_hookLog)

(***************************************************************************)
(* C6: a non-retryable failure is propagated on the attempt where it       *)
(* occurs, with no further invocation and no hook call for it; when all    *)
(* maxRetries+1 attempts fail retryably, fn has been invoked maxRetries+1  *)
(* times, a supplied hook maxRetries times, and withRetry raises the       *)
(* failure object of the last attempt.                                     *)
(***************************************************************************)
C6_FailurePropagation ==
    r_pc = "done" =>
       /\ \A j \in 1..(r_maxRetries + 1) :
             failsFirst(j - 1) /\ ~ r_script[j].ok /\ ~ isRetryable(r_script[j].err) =>
                /\ r_result.kind = "raised"
                /\ r_result.at = j
                /\ r_result.err = r_script[j].err
                /\ r_calls = j
                /\ r_onRetry # "absent" => Len(r_hookLog) = j - 1
       /\ failsFirst(r_maxRetries + 1) =>
             /\ r_result.kind = "raised"
             /\ r_result.at = r_maxRetries + 1
             /\ r_result.err = r_script[r_maxRetries + 1].err
             /\ r_calls = r_maxRetries + 1
             /\ r_onRetry # "absent" => Len(r_hookLog) = r_maxRetries

(***************************************************************************)
(* C7: the hook never affects control flow: on the same sequence of        *)
(* outcomes of fn, the calls made with the hook absent, with a hook that   *)
(* returns and with a hook that raises invoke fn the same number of times  *)
(* and return the same value or raise the same failure.                    *)
(***************************************************************************)
C7_HookDoesNotAffectControlFlow ==
    \A i, j \in 1..Len(r_seen) : r_seen[i].result = r_seen[j].result

(***************************************************************************)
(* Reading the dedupe index.                                               *)
(***************************************************************************)
indexIds(file) == loadDedupeIndex(file)

(***************************************************************************)
(* C8: whatever was added and saved since, has(x) holds exactly for the    *)
(* ids the index file held when the tracker was constructed; an id added   *)
(* during this run is not among them, and a post is kept only under an id  *)
(* has does not report.  (The witness is a run that kept the same id       *)
(* twice.)                                                                 *)
(***************************************************************************)
C8_HasSeesOnlyLoadedIds ==
    t_pc # "none" =>
       /\ \A x \in Ids : has(x) <=> x \in t_loaded
       /\ \A x \in t_newIds : ~ has(x)
       /\ \A x \in TrackerIds : t_kept[x] > 0 <=> x \in t_newIds

C8_Witness ==
    /\ t_pc = "saved"
    /\ t_kept["b"] = 2
    /\ "b" \in indexIds(d_disk)
    /\ ~ has("b")
    /\ has("a")

(***************************************************************************)
(* C9: the write that completes tracker.save() leaves an index file from   *)
(* which loadDedupeIndex returns every id added to the tracker and every   *)
(* id the file held when the save began, whether it was there when the     *)
(* tracker was constructed or another process wrote it since.              *)
(***************************************************************************)
C9_SaveMergesWithDisk ==
    [][ t_pc = "saving" /\ t_pc' = "saved" =>
           /\ t_newIds \subseteq indexIds(d_disk')
           /\ DOMAIN s_existing["tracker"] \subseteq indexIds(d_disk')
           /\ d_disk'.kind = "doc" ]_vars

C9_Witness ==
    /\ t_pc = "saved"
    /\ t_newIds = { "a", "b" }
    /\ "c" \notin t_loaded
    /\ "c" \in DOMAIN s_existing["tracker"]
    /\ { "a", "b", "c" } \subseteq indexIds(d_disk)

(***************************************************************************)
(* C10: the index file only grows.  Under any interleaving of the reads    *)
(* and writes of saveDedupeIndex calls on one directory, a step that is    *)
(* not a reset leaves every id of the index file in the index file.        *)
(***************************************************************************)
C10_IndexOnlyGrows ==
    [][ d_disk' # AbsentFile => indexIds(d_disk) \subseteq indexIds(d_disk') ]_vars

(***************************************************************************)
(* C11: tracker.save() with nothing added since construction writes        *)
(* nothing: the step that completes it leaves the index file as it was,    *)
(* absent if it was absent, and begins no saveDedupeIndex call.            *)
(***************************************************************************)
C11_EmptySaveWritesNothing ==
    [][ t_pc = "ready" /\ t_newIds = {} /\ t_pc' = "saved" =>
           /\ d_disk' = d_disk
           /\ s_saves' = s_saves
           /\ s_pc' = s_pc ]_vars

C11_Witness ==
    /\ t_pc = "saved"
    /\ t_newIds = {}
    /\ d_disk = AbsentFile
    /\ d_reset = "none"
    /\ \A s \in Savers : s_saves[s] = 0

(***************************************************************************)
(* C12: loadDedupeIndex never raises.  It returns the ids keyed in the     *)
(* posts mapping of the document, and the empty set when the file is       *)
(* absent, unreadable, not valid JSON, the JSON text null, or an object    *)
(* with no posts mapping; so constructing a tracker never fails.           *)
(***************************************************************************)
C12_LoadNeverRaises ==
    /\ ~ loadDedupeIndex_call(d_disk).raised
    /\ loadDedupeIndex(d_disk) =
          IF d_disk.kind = "doc" THEN DOMAIN d_disk.posts ELSE {}
    /\ t_pc # "failed"
    /\ t_pc \notin { "none", "unused" } => t_existingIds = t_loaded

C12_Witness ==
    /\ t_pc = "ready"
    /\ d_disk \in { UnreadableFile, InvalidFile, NullFile, NoPostsFile }
    /\ t_existingIds = {}

calendarDate(x) == IF getTime(x) = NaN THEN Null ELSE floorDiv1000(getTime(x))
boundByMagnitude(x) ==
    IF x.kind \in { "null", "empty" } THEN Null
    ELSE IF x.kind \in { "number", "digits" } /\ NumLt(E9, x.v) /\ NumLt(x.v, E12)
         THEN x.v
    ELSE IF x.kind \in { "number", "digits" } /\ NumLeq(E12, x.v)
         THEN floorDiv1000(x.v)
    ELSE calendarDate(x)
keptByCriteria(p, opts) ==
    /\ given(opts.minScore) => p.score >= opts.minScore.v
    /\ given(opts.minComments) => p.num_comments >= opts.minComments.v
    /\ boundByMagnitude(opts.after) # Null =>
          NumLeq(boundByMagnitude(opts.after), p.created_utc)
    /\ boundByMagnitude(opts.before) # Null =>
          NumLeq(p.created_utc, boundByMagnitude(opts.before))

(***************************************************************************)
(* C18: applyFilters returns, in the original order, exactly the records   *)
(* that meet every criterion that is present, the bounds inclusive; an     *)
(* absent criterion rejects nothing.                                       *)
(***************************************************************************)
C18_FiltersAreConjunctive ==
    f_pc = "returned" =>
       f_filtered = SelectSeq(f_posts, LAMBDA p : keptByCriteria(p, f_opts))

(***************************************************************************)
(* C19: a date bound is read by magnitude: a number above 1e9 and below    *)
(* 1e12 is Unix seconds, a number at or above 1e12 is Unix milliseconds    *)
(* floored to seconds, anything else is parsed as a calendar date, and a   *)
(* bound that cannot be parsed is absent.                                  *)
(***************************************************************************)
C19_DateBoundByMagnitude ==
    /\ f_pc \in { "before", "returned" } =>
          f_afterTs = boundByMagnitude(f_opts.after)
    /\ f_pc = "returned" => f_beforeTs = boundByMagnitude(f_opts.before)

(***************************************************************************)
(* C20: for every string s and positive m, chunkStringBySize(s, m)         *)
(* terminates, and what it returns are the consecutive slices of s of      *)
(* length m, the last one possibly shorter: their concatenation is s, each *)
(* is at most m long and all but the last exactly m long; when the length  *)
(* of s is a positive multiple of m there are len(s)/m chunks, none empty. *)
(* The lengths are those the analysis pipeline computes with.              *)
(***************************************************************************)
RECURSIVE concat(_)
concat(chunks) == IF chunks = << >> THEN << >> ELSE Head(chunks) \o concat(Tail(chunks))

chunksPartition ==
    LET n == Len(c_chunks) IN
    /\ concat(c_chunks) = c_s
    /\ \A j \in 1..n :
          /\ c_chunks[j] = SubSeq(c_s, (j - 1) * c_maxChars + 1,
                                  Min(j * c_maxChars, Len(c_s)))
          /\ Len(c_chunks[j]) <= c_maxChars
          /\ j < n => Len(c_chunks[j]) = c_maxChars
    /\ Len(c_s) > 0 /\ Len(c_s) % c_maxChars = 0 =>
          /\ n * c_maxChars = Len(c_s)
          /\ \A j \in 1..n : c_chunks[j] # << >>
    /\ [j \in 1..n |-> Len(c_chunks[j])] = chunkStringBySize(Len(c_s), c_maxChars)

C20_ChunksPartitionTheString ==
    /\ [](c_pc = "returned" => chunksPartition)
    /\ <>(c_pc = "returned")

C20_Witness ==
    /\ c_pc = "returned"
    /\ Len(c_s) = 4
    /\ c_maxChars = 2
    /\ c_chunks = << SubSeq(c_s, 1, 2), SubSeq(c_s, 3, 4) >>
    /\ c_chunks[1] # c_chunks[2]

\* the ids of the records run n returned, over all its sources
filesOf(n) == { f \in h_files : f.run = n }
idsOf(records) == { records[j].id : j \in 1..Len(records) }
returnedIds(n) == UNION { idsOf(f.records) : f \in filesOf(n) }
succeeded(n) == n \in 1..Len(h_runs) /\ h_runs[n].outcome = "done"

eventsOf(ev) == { j \in 1..Len(h_log) : h_log[j].ev = ev }

failedExpansions ==
    { h_log[j].id : j \in { i \in eventsOf("expand_error") : h_log[i].sr = h_sr } }

C17_UnknownListingIsConfigError ==
    (h_cfg.listing \notin KnownListings /\ h_cfg.onProgress # "raises"
        /\ h_pc \notin { "unused", "start" }) =>
        /\ eventsOf("fetch") = {}
        /\ h_results = << >>
        /\ filesOf(h_run) = {}
        /\ h_pc \in { "fetch", "failed" }
        /\ h_pc = "failed" => h_failure = [cause |-> "config", sr |-> "s1"]

\* C21: when the input is no longer than the maximum (the empty string
\* included) chunkStringBySize returns the input as its only chunk; for a
\* null or absent input it returns the empty string as its only chunk; a
\* maximum that is not passed is 12000.
C21_ShortInputIsOneChunk ==
    c_pc = "returned" =>
        /\ (c_input.kind = "string" /\ c_maxArg.given
                /\ Len(c_input.v) <= c_maxArg.v) => c_chunks = << c_input.v >>
        /\ (c_input.kind = "string" /\ ~c_maxArg.given
                /\ Len(c_input.v) <= 12000) => c_chunks = << c_input.v >>
        /\ c_input.kind \in { "null", "undefined" } => c_chunks = << << >> >>

\* C21 witness: a call with null and a maximum of 1 has returned the empty
\* string as its only chunk.
C21_Witness ==
    /\ c_pc = "returned"
    /\ c_input = NullInput
    /\ c_maxArg = MaxCharsArg(1)
    /\ c_chunks = << << >> >>

\* C22: what parseJSONL reads back from formatPostsToJSONL(records) is the
\* records, for every list (the empty one, records without and with
\* replies); formatting what was read back gives the same text again; and
\* the empty list is formatted as one line feed.
C22_JsonlRoundTrips ==
    /\ o_pc \in { "formatted", "parsed", "reformatted" } =>
           (o_posts = << >> => o_jsonl = << LF >>)
    /\ o_pc \in { "parsed", "reformatted" } =>
           ~o_parsed.threw /\ o_parsed.values = jsObjects(o_posts)
    /\ o_pc = "reformatted" => o_jsonl2 = o_jsonl

\* C22 witness: two records went through both directions, one with a line
\* feed in a string and a reply, one with an error marker.
C22_Witness ==
    /\ o_pc = "reformatted"
    /\ Len(o_posts) = 2
    /\ o_posts[1].id = << "x", LF, "x" >>
    /\ o_posts[1].comments # << >>
    /\ o_posts[2].commentsError.present
    /\ Len(o_parsed.values) = 2

\* the header of the text: its first nine lines
headerLines == SubSeq(o_text, 1, 9)
headerLinesOf(k) == { j \in 1..Len(headerLines) : headerLines[j].k = k }
linesOf(k) == { j \in 1..Len(o_text) : o_text[j].k = k }
keywordGiven == o_opts.search.kind = "string" /\ o_opts.search.v # << >>

\* C23: the header's postsHarvested is the number of records rendered; with
\* a search keyword the header has the search line and no listing line,
\* without one it has the listing line and no search line, and the listing
\* line carries the time window for top only.
C23_HeaderCountsAndSource ==
    o_pc = "text" =>
        /\ \E j \in headerLinesOf("postsHarvested") :
               /\ headerLinesOf("postsHarvested") = { j }
               /\ headerLines[j].n = Cardinality(linesOf("POST"))
               /\ headerLines[j].n = Len(o_posts)
        /\ Cardinality(headerLinesOf("search")) + Cardinality(headerLinesOf("listing")) = 1
        /\ keywordGiven =>
               \E j \in headerLinesOf("search") : headerLines[j].v = o_opts.search.v
        /\ ~keywordGiven =>
               \E j \in headerLinesOf("listing") :
                   /\ headerLines[j].v = o_opts.listing
                   /\ (headerLines[j].window # "") = (o_opts.listing = "top")
                   /\ headerLines[j].window \in { "", o_opts.time }

\* C23 witness: two records rendered with a keyword given and the top
\* listing: the header has the search line.
C23_Witness ==
    /\ o_pc = "text"
    /\ Len(o_posts) = 2
    /\ keywordGiven
    /\ o_opts.listing = "top"
    /\ headerLinesOf("search") # {}

\* the lines that follow the section of record i, up to the next record
postLine(i) == CHOOSE j \in linesOf("POST") : o_text[j].i = i
repliesBlock(i) ==
    SubSeq(o_text, postLine(i) + 4,
           IF i < Len(o_posts) THEN postLine(i + 1) - 2 ELSE Len(o_text))
renderedBody(c) ==
    IF trim(c.body) = << >> THEN << "(", "e", "m", "p", "t", "y", ")" >> ELSE trim(c.body)

\* C24: a record has a replies block exactly when includeComments was
\* asked for, and the block is the error form (with the message) when the
\* record carries an error marker, (none) when it has no marker and no
\* reply, and otherwise the numbered replies, one entry per reply, in order.
C24_RepliesBlockForms ==
    o_pc = "text" =>
        \A i \in 1..Len(o_posts) :
            LET p == o_posts[i]
                block == repliesBlock(i)
            IN  /\ (block # << >>) = o_opts.includeComments
                /\ o_opts.includeComments =>
                       /\ block[1].k = "comments:"
                       /\ p.commentsError.present =>
                              /\ Len(block) = 3
                              /\ block[2].k = "(error)"
                              /\ block[2].v = p.commentsError.message
                       /\ (~p.commentsError.present /\ p.comments = << >>) =>
                              /\ Len(block) = 3
                              /\ block[2].k = "(none)"
                       /\ (~p.commentsError.present /\ p.comments # << >>) =>
                              /\ Len(block) = 2 * Len(p.comments) + 2
                              /\ \A j \in 1..Len(p.comments) :
                                     /\ block[2 * j].k = "- comment"
                                     /\ block[2 * j].n = j
                                     /\ block[2 * j + 1].v = renderedBody(p.comments[j])

\* the events harvestSubreddit emitted for a subreddit in the current run
eventsFor(sr) ==
    SelectSeq(h_events, LAMBDA e : e.subreddit = sr /\ e.type # "file_written")
\* harvestSubreddit has returned for the subreddit in the current run
returnedFor(sr) ==
    \/ \E f \in filesOf(h_run) : f.sr = sr
    \/ h_k >= 1 /\ h_sr = sr /\ h_pc \in { "write", "save", "done" }
    \/ h_k >= 1 /\ h_sr = sr /\ h_pc = "failed" /\ h_failure.cause \in { "io", "save" }

\* what was emitted for sr follows the fixed order, as far as it goes
inFixedOrder(sr) ==
    LET E == eventsFor(sr)
        f == IF Len(E) >= 3 /\ E[3].type = "dedupe_skipped" THEN 4 ELSE 3
        w == IF h_cfg.includeComments THEN 3 ELSE 1
        total == E[f].total
        last == IF E # << >> /\ E[Len(E)].type = "subreddit_done" THEN Len(E) - 1 ELSE Len(E)
    IN  /\ Len(E) >= 1 => E[1].type = "subreddit_start"
        /\ Len(E) >= 2 => E[2].type = "posts_fetched"
        /\ Len(E) >= f => E[f].type = "posts_filtered"
        /\ \A j \in (f + 1)..last :
               LET i == ((j - f - 1) \div w) + 1
                   slot == (j - f - 1) % w
               IN  /\ i <= total
                   /\ E[j].index = i
                   /\ E[j].total = total
                   /\ slot = 0 => E[j].type = "post_progress"
                   /\ slot = 1 => E[j].type = "comments_expand_start"
                   /\ slot = 2 => E[j].type \in { "comments_expand_done",
                                                  "comments_expand_error" }
        /\ last < Len(E) => Len(E) > f /\ last - f = w * total

\* C25: for each subreddit the progress events come in the fixed order:
\* subreddit_start, posts_fetched, posts_filtered (after dedupe_skipped, if
\* any), then for i = 1..total, total being that of posts_filtered,
\* post_progress and, with includeComments, comments_expand_start and one
\* of comments_expand_done and comments_expand_error; subreddit_done is
\* last, after the events of all total records, and it has been emitted
\* once harvestSubreddit has returned.
C25_ProgressEventsInOrder ==
    \A sr \in { Subreddits[k] : k \in 1..Len(Subreddits) } :
        /\ inFixedOrder(sr)
        /\ (returnedFor(sr) /\ h_cfg.onProgress = "ignores") =>
               /\ eventsFor(sr) # << >>
               /\ eventsFor(sr)[Len(eventsFor(sr))].type = "subreddit_done"

\* C25 witness: harvestSubreddit returned two records for s1, the replies
\* of one loaded and those of the other failed; ten events were emitted.
C25_Witness ==
    /\ h_pc = "write"
    /\ h_sr = "s1"
    /\ h_cfg.onProgress = "ignores"
    /\ Len(h_results) = 2
    /\ Len(eventsFor("s1")) = 10
    /\ \E j \in 1..10 : eventsFor("s1")[j].type = "comments_expand_error"
    /\ \E j \in 1..10 : eventsFor("s1")[j].type = "comments_expand_done"

\* C26: what a harvest returns does not depend on the progress consumer:
\* whether onProgress is absent, returns or throws, a run fails only for
\* what the platform or the file system did, never for the consumer.
C26_ResultIndependentOfConsumer ==
    h_pc = "failed" => h_failure.cause \in { "config", "fetch", "io", "save" }

(***************************************************************************)
(* The remote requests of a run, in the order they were sent and answered. *)
(***************************************************************************)
RequestEvents == { "fetch", "fetch_done", "fetch_error",
                   "expand", "expand_done", "expand_error" }
harvestRequests == SelectSeq(h_log, LAMBDA e : e.ev \in RequestEvents)
analysisRequests == SelectSeq(a_log, LAMBDA e : e.ev \in { "issue", "return", "fail" })
\* e is the answer (a return or a failure) to the request of i
answers(e, i) ==
    /\ e.sr = i.sr
    /\ e.id = i.id
    /\ \/ i.ev = "fetch" /\ e.ev \in { "fetch_done", "fetch_error" }
       \/ i.ev = "expand" /\ e.ev \in { "expand_done", "expand_error" }
\* requests and answers alternate, each answer being to the request before it
oneAtATime(log, isIssue(_), isAnswer(_, _)) ==
    \A j \in 1..Len(log) :
        IF j % 2 = 1 THEN isIssue(log[j])
        ELSE ~isIssue(log[j]) /\ isAnswer(log[j], log[j - 1])
fetchedSources ==
    LET fetches == SelectSeq(h_log, LAMBDA e : e.ev = "fetch")
    IN  [j \in 1..Len(fetches) |-> fetches[j].sr]
expandedIds(sr) ==
    LET expands == SelectSeq(h_log, LAMBDA e : e.ev = "expand" /\ e.sr = sr)
    IN  [j \in 1..Len(expands) |-> expands[j].id]
recordIds(records) == [j \in 1..Len(records) |-> records[j].id]
isPrefix(p, q) == Len(p) <= Len(q) /\ p = SubSeq(q, 1, Len(p))
\* ids keeps the order of the fetched listing
inFetchedOrder(ids, sr) ==
    \A i, j \in 1..Len(ids) :
        i < j => \E m, n \in 1..Len(h_remote[sr]) :
                    /\ m < n
                    /\ h_remote[sr][m].id = ids[i]
                    /\ h_remote[sr][n].id = ids[j]
\* position of a stage 1 request: source, then chunk, the reduce request last
stage1Before(p, q) ==
    \/ p.src < q.src
    \/ p.src = q.src /\ p.kind = "chunk" /\ q.kind = "chunk" /\ p.k < q.k
    \/ p.src = q.src /\ p.kind = "chunk" /\ q.kind = "reduce"

stampOf(path) == path[1]

\* C28: once analyzeCorpus is Done the output directory holds the report
\* and the opportunities artifact, and both names carry the same time stamp,
\* which is the harvest's when the run was handed one; a directory holding
\* only one of the two is never that of a run that returned.
C28_BothArtifactsOneStamp ==
    /\ a_pc = "Done" =>
          /\ \E report, opps \in a_files :
                /\ report[2] = "analysis.md"
                /\ opps[2] = "opportunities.json"
                /\ stampOf(report) = stampOf(opps)
                /\ a_timestamp # "" => stampOf(report) = a_timestamp
                /\ a_files = { report, opps }
    /\ Cardinality(a_files) = 1 => a_pc \in { "WriteOpportunities", "Failed" }

\* C28 witness: a run that was handed the harvest's time stamp is Done
C28_Witness ==
    /\ a_pc = "Done"
    /\ a_timestamp = HarvestStamp
    /\ Cardinality(a_files) = 2

\* what the directory holds at a path: the contents of the file there
heldAt(path) == { f.contents : f \in { g \in h_dir : g.path = path } }
\* what harvestSubreddit returned for sr in the current run
harvestedFor(sr) == { f.records : f \in { g \in filesOf(h_run) : g.sr = sr } }

\* C29: when harvestSubredditsToFiles has returned, its outputs list has one
\* entry per requested source, in request order; the file paths of the
\* entries are pairwise distinct; and the file at each entry's path holds
\* the records harvested for that entry's source.
C29_OneFilePerSource ==
    h_pc \in { "save", "done" } =>
        /\ Len(h_outputs) = Len(Subreddits)
        /\ \A k \in 1..Len(h_outputs) :
              /\ h_outputs[k].subreddit = Subreddits[k]
              /\ heldAt(h_outputs[k].filePath) = harvestedFor(Subreddits[k])
        /\ \A j, k \in 1..Len(h_outputs) :
              j # k => h_outputs[j].filePath # h_outputs[k].filePath

\* the path a write of the log went to
writtenPath(req) == IF req = analysisFile THEN analysisPath ELSE opportunitiesPath
\* every file the run wrote is still in the output directory
nothingRolledBack ==
    \A j \in LogIdx : a_log[j].ev = "write" => writtenPath(a_log[j].req) \in a_files

\* C30: the opportunities artifact is written once stage 3 has completed,
\* so a run that failed in stage 4 has left the opportunities artifact on
\* disk; and a file the run wrote is never removed by a later failure.
C30_OpportunitiesWrittenAtStage3 ==
    /\ a_pc = "Failed" /\ a_failure.stage = 4 => opportunitiesPath \in a_files
    /\ nothingRolledBack

\* C30 as amended: both artifacts are written only after stage 4 has
\* completed, the report first and the opportunities artifact after it, so
\* a run that failed in stage 4 or before has left neither on disk; and a
\* file the run wrote is never removed by a later failure: a run whose
\* second write failed has left the report.
C30_ArtifactsWrittenAfterStage4 ==
    /\ a_files # {} => returnedEver(synthReq)
    /\ opportunitiesPath \in a_files => analysisPath \in a_files
    /\ a_pc = "Failed" /\ a_failure.stage \in 1..4 => a_files = {}
    /\ nothingRolledBack

\* C30 witness: the report was written and the write of the opportunities
\* artifact failed; the report is still there
C30_Witness ==
    /\ a_pc = "Failed"
    /\ a_failure.cause = "io"
    /\ a_files = { analysisPath }
    /\ a_opps.shape = "array"

\* the save of s completes with a write that the file system accepts
writes(s) == s_pc[s] = "writing" /\ s_pc'[s] = "idle" /\ d_disk.kind # "unreadable"

\* C31: the write of a saveDedupeIndex call leaves a document holding
\* exactly the ids of the entries the call read from disk and the new ids;
\* each new id carries the stamp the call gave it, also when the id was on
\* disk with another stamp, and every entry read whose id is not among the
\* new ids is written back as it was read.
C31_SaveWritesUnion ==
    [][ \A s \in Savers :
          writes(s) =>
             /\ d_disk'.kind = "doc"
             /\ DOMAIN d_disk'.posts = (DOMAIN s_existing[s]) \cup (DOMAIN s_posts[s])
             /\ \A i \in DOMAIN s_posts[s] : d_disk'.posts[i] = s_posts[s][i]
             /\ \A i \in (DOMAIN s_existing[s]) \ (DOMAIN s_posts[s]) :
                   d_disk'.posts[i] = s_existing[s][i] ]_vars

\* C31 witness: the tracker saved b, which another process had written to
\* disk before at an earlier time; b has the new stamp and a is as it was
C31_Witness ==
    /\ t_pc = "saved"
    /\ DOMAIN s_existing["tracker"] = { "a", "b" }
    /\ s_existing["tracker"]["b"] = 0
    /\ t_newIds = { "b" }
    /\ d_disk = DocFile([i \in { "a", "b" } |-> IF i = "b" THEN 1 ELSE 0])

\* the entries of the index file
entries(file) == readPosts(file)

fileAnalysed ==
    /\ a_input.kind = "file"
    /\ a_pc # "File"
    /\ ~(a_pc = "Failed" /\ a_failure.cause = "input")
\* analyzeCorpus has grouped the posts
grouped == a_pc # "Start" /\ ~(a_pc = "Failed" /\ a_failure.cause = "setup")

\* C33: analyzeFileToMarkdown hands analyzeCorpus, for an input whose name
\* does not end in .jsonl, exactly one record holding the whole content,
\* which makes exactly one source, and for a .jsonl input exactly the
\* records of its lines, in order; a run that is Done then has gone through
\* the four stages and written the two artifacts, as for structured posts.
C33_FileInputAnalysed ==
    fileAnalysed =>
        /\ IF a_input.name \in JsonlNames
           THEN LET records == SelectSeq(a_input.lines, LAMBDA l : l.kind = "record")
                IN  /\ Len(a_posts) = Len(records)
                    /\ \A j \in 1..Len(records) : a_posts[j] = records[j].post
           ELSE /\ Len(a_posts) = 1
                /\ a_posts[1].len = a_input.len
                /\ grouped => Len(a_groups) = 1
        /\ a_pc = "Done" =>
              /\ \A req \in stage1Requests \cup { tagReq, oppReq, synthReq } :
                    returnedEver(req)
              /\ a_files = { analysisPath, opportunitiesPath }

\* C33 witness: the text file .txt, too long for one chunk, was analysed as
\* one record of the source "unknown"
C33_Witness ==
    /\ a_pc = "Done"
    /\ a_input.kind = "file"
    /\ a_input.name = << "", "txt" >>
    /\ a_groups = << "unknown" >>
    /\ Len(chunksOfSource(1)) = 2

\* C34: whatever the stage-3 response, what stage 4 is handed and what the
\* opportunities artifact gets is an array (the parsed array, or the
\* one-element error array), and the run never fails for what a stage-3
\* response contained.
C34_OpportunitiesAlwaysArray ==
    /\ a_pc \in { "Synth", "WriteAnalysis", "WriteOpportunities", "Done" } =>
          a_opps.shape \in { "array", "error_array" }
    /\ a_pc = "Failed" => a_failure.cause # "type_error"

\* the requests issued so far, in order
issuedRequests ==
    LET issues == SelectSeq(a_log, LAMBDA e : e.ev = "issue")
    IN  [j \in 1..Len(issues) |-> issues[j].req]
\* the requests of source s: its chunks in chunk order, then its reduce
requestsOfSource(s) ==
    [k \in 1..Len(chunksOfSource(s)) |->
        [stage |-> 1, kind |-> "chunk", src |-> s, k |-> k]]
    \o << [stage |-> 1, kind |-> "reduce", src |-> s, k |-> 0] >>
RECURSIVE requestsOfSources(_)
requestsOfSources(n) ==
    IF n = 0 THEN << >> ELSE requestsOfSources(n - 1) \o requestsOfSource(n)
\* (c1 + 1) + ... + (cn + 1)
RECURSIVE stage1Count(_)
stage1Count(n) ==
    IF n = 0 THEN 0 ELSE stage1Count(n - 1) + Len(chunksOfSource(n)) + 1

\* C35: a run of analyzeCorpus that is Done has issued, for each source in
\* turn, one request per chunk in chunk order and then one reduce request,
\* also for a source of one chunk, and after them one tag, one opportunity
\* and one synthesis request: (c1+1) + ... + (cn+1) + 3 requests in all,
\* and 3 when there are no records.
C35_RequestCount ==
    a_pc = "Done" =>
        /\ issuedRequests =
              requestsOfSources(Len(a_groups)) \o << tagReq, oppReq, synthReq >>
        /\ Len(issuedRequests) = stage1Count(Len(a_groups)) + 3
        /\ a_posts = << >> => Len(issuedRequests) = 3

\* C35 witness: two sources, one of a single chunk and one of two, so
\* 2 + 3 + 3 requests
C35_Witness ==
    /\ a_pc = "Done"
    /\ Len(a_groups) = 2
    /\ Len(chunksOfSource(1)) = 1
    /\ Len(chunksOfSource(2)) = 2
    /\ Len(issuedRequests) = 8

(***************************************************************************)
(* Which failures withRetry retries.  A failure of invocation j was        *)
(* retried when fn was invoked again after it.                             *)
(***************************************************************************)
failedAt(j) == j \in 1..r_calls /\ ~ r_script[j].ok
retried(j) == r_calls > j
budgetRemains(j) == j <= r_maxRetries
classifiedRetryable(err) ==
    \/ err.statusCode = 429
    \/ err.rateLimitMsg
    \/ err.statusCode \in 500..599

(***************************************************************************)
(* C36: a failure is retried if and only if it is classified retryable     *)
(* (status 429, or a message matching the rate-limit pattern, or a status  *)
(* in the 5xx class): once a call of withRetry has ended, every failure    *)
(* of fn that was classified retryable while a retry remained was followed *)
(* by another invocation, and no failure with any other status and message *)
(* was, whatever budget remained.                                          *)
(***************************************************************************)
C36_RetriedIffRetryable ==
    r_pc = "done" =>
       \A j \in 1..(r_maxRetries + 1) :
          failedAt(j) =>
             /\ classifiedRetryable(r_script[j].err) /\ budgetRemains(j) => retried(j)
             /\ ~ classifiedRetryable(r_script[j].err) => ~ retried(j)

(***************************************************************************)
(* What a run with a tracker adds to it.                                   *)
(***************************************************************************)
\* the filter-passing posts of sr that the dedupe filter drops
dropped(sr) ==
    SelectSeq(applyFilters(h_remote[sr], filterOpts(h_cfg)),
              LAMBDA p : p.id \in h_existingIds)
skipEvents == { j \in 1..Len(h_events) : h_events[j].type = "dedupe_skipped" }
harvesting == h_pc \in { "fetch", "fetching", "record", "expanding", "write",
                         "save", "done", "failed" }
\* the step pushes one record and adds its id, and only its id
addsWithRecord ==
    /\ Len(h_results') = Len(h_results) + 1
    /\ SubSeq(h_results', 1, Len(h_results)) = h_results
    /\ h_newIds' = h_newIds \cup { h_results'[Len(h_results')].id }

(***************************************************************************)
(* C37: in a run with a tracker, an id is added to the tracker exactly     *)
(* when a record with that id is pushed to the records returned for the    *)
(* source being harvested, so the ids added for a source are the ids of    *)
(* its returned records; every returned record's id, and so every id       *)
(* buffered for save, is outside the set loaded at construction; and a     *)
(* dedupe_skipped event is emitted only with a positive count, which is    *)
(* the number of filter-passing posts of that source that were dropped.    *)
(***************************************************************************)
C37_TrackerAddsReturnedIds ==
    /\ [] ( (h_cfg.dedupe /\ harvesting) =>
               /\ h_newIds = returnedIds(h_run) \cup idsOf(h_results)
               /\ (returnedIds(h_run) \cup idsOf(h_results)) \cap h_existingIds = {}
               /\ h_newIds \cap h_existingIds = {}
               /\ \A j \in skipEvents :
                     /\ h_events[j].total > 0
                     /\ h_events[j].total = Len(dropped(h_events[j].subreddit)) )
    /\ [][ (h_cfg.dedupe /\ h_run' = h_run /\ h_pc \notin { "unused", "start" }) =>
              /\ (h_newIds' # h_newIds \/ Len(h_results') > Len(h_results))
                    => addsWithRecord
              /\ \A sr \in { Subreddits[k] : k \in 1..Len(Subreddits) } :
                    (h_pc = "fetching" /\ h_pc' = "record" /\ h_sr = sr
                       /\ h_cfg.onProgress = "ignores" /\ Len(dropped(sr)) > 0)
                    => \E j \in skipEvents' : j > Len(h_events)
                                              /\ h_events'[j].subreddit = sr ]_vars

\* C37 witness: a run with a tracker that had loaded a, dropped a from s1
\* with the event for it, returned b and has exactly b buffered.
C37_Witness ==
    /\ h_cfg.dedupe /\ h_pc = "done"
    /\ h_existingIds = { "a" }
    /\ h_newIds = { "b" }
    /\ \E f \in filesOf(h_run) : f.sr = "s1" /\ idsOf(f.records) = { "b" }
    /\ \E j \in skipEvents : h_events[j].subreddit = "s1" /\ h_events[j].total = 1

(***************************************************************************)
(* The records of the current run: those being collected and those that    *)
(* harvestSubreddit returned.                                              *)
(***************************************************************************)
recordsOf(sr) ==
    (IF h_pc \in { "record", "expanding", "write" } /\ h_sr = sr
     THEN { h_results[j] : j \in 1..Len(h_results) } ELSE {})
    \cup UNION { { f.records[j] : j \in 1..Len(f.records) } :
                 f \in { g \in filesOf(h_run) : g.sr = sr } }
expansionFailed(sr, id) ==
    \E j \in 1..Len(h_log) : h_log[j] = event("expand_error", sr, id)

(***************************************************************************)
(* C38: in every record returned by harvestSubreddit an error marker and a *)
(* non-empty replies list are never both present; a record has an error    *)
(* marker only if replies were requested and its reply expansion failed;   *)
(* and every record has at most commentLimit replies.                      *)
(***************************************************************************)
C38_MarkerOrReplies ==
    h_pc \notin { "unused", "start" } =>
       \A sr \in { Subreddits[k] : k \in 1..Len(Subreddits) } :
          \A rec \in recordsOf(sr) :
             /\ ~ (rec.commentsError.present /\ rec.comments # << >>)
             /\ rec.commentsError.present =>
                   h_cfg.includeComments /\ expansionFailed(sr, rec.id)
             /\ Len(rec.comments) <= h_cfg.commentLimit

(***************************************************************************)
(* A run that fails while harvesting a source.                             *)
(***************************************************************************)
harvestFailed ==
    h_pc = "failed" /\ h_failure.cause \in { "fetch", "config", "consumer" }
requestsFor(sr) == { j \in 1..Len(h_log) : h_log[j].sr = sr }
\* harvestSubreddit is running for a source
inHarvestSubreddit == h_pc \in { "fetch", "fetching", "record", "expanding" }

(***************************************************************************)
(* C39: when harvesting the k-th requested source fails, the run ends      *)
(* with that failure; the corpus file of each source 1..k-1 is on disk     *)
(* with the records harvested for it, nothing on disk or in outputs having *)
(* changed since the harvest of source k began; no file was written for    *)
(* source k; and no request was made for any source after k.               *)
(***************************************************************************)
C39_FailureAtSourceK ==
    /\ [] ( harvestFailed =>
               /\ h_failure.sr = Subreddits[h_k]
               /\ h_runs[Len(h_runs)].outcome = "failed"
               /\ h_runs[Len(h_runs)].cause = h_failure.cause
               /\ Len(h_outputs) = h_k - 1
               /\ \A j \in 1..(h_k - 1) :
                     /\ h_outputs[j].subreddit = Subreddits[j]
                     /\ \E f \in filesOf(h_run) :
                           /\ f.sr = Subreddits[j]
                           /\ [path |-> filePath(h_run, Subreddits[j]),
                               contents |-> f.records] \in h_dir
               /\ \A f \in filesOf(h_run) : f.sr # Subreddits[h_k]
               /\ \A j \in 1..Len(h_log) : h_log[j].ev # "file" \/ h_log[j].sr # Subreddits[h_k]
               /\ \A j \in (h_k + 1)..Len(Subreddits) : requestsFor(Subreddits[j]) = {} )
    /\ [][ inHarvestSubreddit => h_dir' = h_dir /\ h_outputs' = h_outputs
                                    /\ h_files' = h_files ]_vars

\* C39 witness: the fetch of the second source failed after the file of the
\* first, holding a record, was written.
C39_Witness ==
    /\ harvestFailed /\ h_failure.cause = "fetch" /\ h_k = 2
    /\ Len(h_outputs) = 1
    /\ \E e \in h_dir : e.path = filePath(h_run, Subreddits[1]) /\ e.contents # << >>

====
